---- MODULE Spec2Model ----
(***************************************************************************)
(* Cross-source gap and opportunity intelligence engine.                   *)
(*                                                                         *)
(*   backend/app/engines/intelligence/key_opportunity.py  (domain scorer)  *)
(*   backend/app/engines/intelligence/gap_analyzer.py     (URL gaps)       *)
(*   backend/app/engines/intelligence/aggregator.py       (per-domain      *)
(*                                                         merge)          *)
(*                                                                         *)
(* Scores are Python floats that only ever hold multiples of 5; they are   *)
(* modelled as integers.  The weighted combination is kept in hundredths   *)
(* (exact), the rounded key_opportunity_score in tenths.                   *)
(***************************************************************************)
EXTENDS Integers, Sequences, FiniteSets, TLC

VARIABLES
    \* score_key_opportunities(domain_intel) -> opportunities
    domain_intel, opportunities, ko_pc,
    \* analyze_gaps(geo_citations, serp_results, ..., client_domains,
    \* excluded_domains) -> gap_result
    geo_citations, serp_results, client_domains, excluded_domains,
    gap_result, gap_pc,
    \* _score_opportunity(score_data) -> score_out
    score_data, score_out,
    \* collect_domain_intelligence(db) -> intel; previous_run is the result
    \* of the run before the current one
    db, intel, previous_run,
    \* parse_response(text, brand_names, native_citations) -> parsed
    text, brand_names, native_citations, parsed, parse_pc,
    \* aggregate(agg_responses, agg_brand_names, total_prompts) -> agg_result
    agg_responses, agg_brand_names, agg_result, agg_pc,
    \* domains.py: the domains table (one row per domain, or NoRow) and the
    \* request and response of the last request
    catalog, cat_request, cat_response,
    \* geo_tasks.py, analysis_tasks.py, inline_runner.py: one background task,
    \* its run row, its job row, its session and the stored responses
    geo_kind, geo_mode, geo_pc, geo_run, geo_job, geo_prompts, geo_idx,
    geo_results, geo_queue, geo_pending, geo_responses, geo_failed, geo_error,
    \* rate_limiter.py: the callers of acquire(provider) for one provider, the
    \* clock, the stored last-grant times and the grants
    rl_backend, rl_place, rl_clock, rl_last, rl_pc, rl_now, rl_seen, rl_wake,
    rl_grants,
    \* seo_tasks.py: one _run_serp_query task with its job, the external
    \* calls of the last step and the last LLM classification
    serp_mode, serp_pc, serp_items, serp_rows, serp_committed, serp_job,
    serp_calls, serp_llm,
    \* dispatch_inline: the module global app.database.async_session, each
    \* worker thread's saved factory and position, and who has used which
    \* factory
    async_session, original_session, inline_pc, session_uses

koVars == <<domain_intel, opportunities, ko_pc>>

gapVars == <<geo_citations, serp_results, client_domains, excluded_domains,
             gap_result, gap_pc>>

scoreVars == <<score_data, score_out>>

intelVars == <<db, intel, previous_run>>

parseVars == <<text, brand_names, native_citations, parsed, parse_pc>>

aggVars == <<agg_responses, agg_brand_names, agg_result, agg_pc>>

catVars == <<catalog, cat_request, cat_response>>

taskVars == <<geo_kind, geo_mode, geo_pc, geo_run, geo_job, geo_prompts, geo_idx,
              geo_results, geo_queue, geo_pending, geo_responses, geo_failed,
              geo_error>>

rlVars == <<rl_backend, rl_place, rl_clock, rl_last, rl_pc, rl_now, rl_seen, rl_wake,
            rl_grants>>

serpVars == <<serp_mode, serp_pc, serp_items, serp_rows, serp_committed, serp_job,
              serp_calls, serp_llm>>

inlineVars == <<async_session, original_session, inline_pc, session_uses>>

vars == <<koVars, gapVars, scoreVars, intelVars, parseVars, aggVars, catVars, taskVars,
          rlVars, serpVars, inlineVars>>

----
\* Python None for int | None, str | None and bool | None fields.
NoneInt == -1
NoneStr == "None"

Min(a, b) == IF a <= b THEN a ELSE b
Max(a, b) == IF a >= b THEN a ELSE b

Range(s) == {s[i] : i \in 1..Len(s)}

\* len(set(xs))
Distinct(s) == Cardinality(Range(s))

RECURSIVE SumSeq(_)
SumSeq(s) == IF s = <<>> THEN 0 ELSE Head(s) + SumSeq(Tail(s))

RECURSIVE MinSeq(_)
MinSeq(s) == IF Len(s) = 1 THEN s[1] ELSE Min(Head(s), MinSeq(Tail(s)))

\* Truthiness of a bool | None field.
Truthy(b) == b = "True"

----
\* WEIGHTS, in hundredths.
W_seo == 25
W_geo == 25
W_backlink == 15
W_content_gap == 15
W_competitive == 20

\* _score_seo
ScoreSeo(d) ==
    LET n_urls == Len(d.serp_urls)
        s1 == IF n_urls >= 5 THEN 30
              ELSE IF n_urls >= 3 THEN 20
              ELSE IF n_urls >= 1 THEN 10 ELSE 0
        n_pos == Len(d.serp_positions)
        tot == SumSeq(d.serp_positions)
        \* avg_pos <= k  <=>  sum <= k * len
        s2 == IF n_pos = 0 THEN 0
              ELSE IF tot <= 3 * n_pos THEN 30
              ELSE IF tot <= 5 * n_pos THEN 20
              ELSE IF tot <= 10 * n_pos THEN 15 ELSE 5
        n_keywords == Distinct(d.serp_keywords)
        s3 == IF n_keywords >= 5 THEN 25
              ELSE IF n_keywords >= 3 THEN 15
              ELSE IF n_keywords >= 1 THEN 10 ELSE 0
        s4 == IF "ranking" \in Range(d.serp_content_types) THEN 15 ELSE 0
        s5 == IF "review" \in Range(d.serp_content_types) THEN 10 ELSE 0
    IN Min(100, s1 + s2 + s3 + s4 + s5)

\* _score_geo
ScoreGeo(d) ==
    IF d.geo_citation_count = 0 THEN 0
    ELSE
    LET s1 == IF d.geo_citation_count >= 5 THEN 40
              ELSE IF d.geo_citation_count >= 3 THEN 30
              ELSE IF d.geo_citation_count >= 1 THEN 15 ELSE 0
        n_providers == Distinct(d.geo_providers)
        s2 == IF n_providers >= 3 THEN 30
              ELSE IF n_providers >= 2 THEN 20
              ELSE IF n_providers >= 1 THEN 10 ELSE 0
        n_brands == Distinct(d.geo_mentioned_brands)
        s3 == IF n_brands >= 3 THEN 20
              ELSE IF n_brands >= 1 THEN 10 ELSE 0
        s4 == IF d.serp_urls # <<>> THEN 10 ELSE 0
    IN Min(100, s1 + s2 + s3 + s4)

\* _score_backlink
ScoreBacklink(d) ==
    LET da == d.domain_authority
        traffic == d.monthly_traffic
        s1 == IF da = NoneInt THEN 0
              ELSE IF da >= 60 THEN 40
              ELSE IF da >= 40 THEN 30
              ELSE IF da >= 20 THEN 20
              ELSE IF da >= 10 THEN 10 ELSE 0
        \* log10(traffic) >= k  <=>  traffic >= 10^k
        s2 == IF traffic = NoneInt \/ traffic <= 0 THEN 0
              ELSE IF traffic >= 1000000 THEN 30
              ELSE IF traffic >= 100000 THEN 25
              ELSE IF traffic >= 10000 THEN 15
              ELSE IF traffic >= 1000 THEN 10 ELSE 0
        s3 == IF d.domain_type = "editorial" THEN 20
              ELSE IF d.domain_type = "reference" THEN 15
              ELSE IF d.domain_type = "ugc" THEN 5 ELSE 0
        s4 == IF Truthy(d.accepts_sponsored) THEN 10 ELSE 0
        s5 == IF da = NoneInt /\ traffic = NoneInt
              THEN (IF d.geo_citation_count >= 2 THEN 25
                    ELSE IF d.geo_citation_count >= 1 THEN 15 ELSE 0)
                   + (IF d.serp_positions # <<>> /\ MinSeq(d.serp_positions) <= 5 THEN 20
                      ELSE IF d.serp_positions # <<>> THEN 10 ELSE 0)
              ELSE 0
    IN Min(100, s1 + s2 + s3 + s4 + s5)

\* _score_content_gap
ScoreContentGap(d) ==
    LET types == Range(d.serp_content_types)
        s1 == IF "ranking" \in types THEN 25 ELSE 0
        s2 == IF "review" \in types THEN 20 ELSE 0
        s3 == IF "solution" \in types THEN 15 ELSE 0
        n_niches == Distinct(d.niches)
        s4 == IF n_niches >= 3 THEN 20
              ELSE IF n_niches >= 2 THEN 15
              ELSE IF n_niches >= 1 THEN 10 ELSE 0
        n_keywords == Distinct(d.serp_keywords)
        s5 == Min(20, n_keywords * 5)
        s6 == IF Truthy(d.accepts_sponsored) THEN 10 ELSE 0
    IN Min(100, s1 + s2 + s3 + s4 + s5 + s6)

\* The tiers tested with == instead of >=: a fifth brand falls off the table.
ScoreCompetitiveDensityExact(d) ==
    LET n_comps == Len(d.competitor_brands_present)
        s1 == IF n_comps = 4 THEN 50
              ELSE IF n_comps = 3 THEN 40
              ELSE IF n_comps = 2 THEN 30
              ELSE IF n_comps = 1 THEN 20 ELSE 0
        s2 == IF d.serp_urls # <<>> /\ d.geo_citation_count > 0 THEN 25 ELSE 0
        s3 == IF d.domain_type = "editorial" THEN 15
              ELSE IF d.domain_type = "ugc" THEN 10 ELSE 0
    IN Min(100, s1 + s2 + s3)

\* _score_competitive_density
ScoreCompetitiveDensity(d) ==
    LET n_comps == Len(d.competitor_brands_present)
        s1 == IF n_comps >= 4 THEN 50
              ELSE IF n_comps >= 3 THEN 40
              ELSE IF n_comps >= 2 THEN 30
              ELSE IF n_comps >= 1 THEN 20 ELSE 0
        s2 == IF d.serp_urls # <<>> /\ d.geo_citation_count > 0 THEN 25 ELSE 0
        s3 == IF d.domain_type = "editorial" THEN 15
              ELSE IF d.domain_type = "ugc" THEN 10 ELSE 0
    IN Min(100, s1 + s2 + s3)

\* _recommend_actions
RecommendActions(d, seo_score, geo_score, backlink_score) ==
    LET types == Range(d.serp_content_types)
        a1 == IF "ranking" \in types THEN <<"pitch_inclusion">> ELSE <<>>
        a2 == IF "review" \in types THEN <<"request_review">> ELSE <<>>
        a3 == IF d.domain_type = "editorial" THEN <<"pitch_guest_post">> ELSE <<>>
        a4 == IF "solution" \in types THEN <<"content_collaboration">> ELSE <<>>
        a5 == IF d.domain_type = "ugc" THEN <<"community_engagement">> ELSE <<>>
        a6 == IF geo_score >= 40 THEN <<"strategic_partnership">> ELSE <<>>
        a7 == IF backlink_score >= 50 THEN <<"backlink_outreach">> ELSE <<>>
        actions == a1 \o a2 \o a3 \o a4 \o a5 \o a6 \o a7
    IN IF actions = <<>> THEN <<"general_outreach">> ELSE actions

\* Weights that no longer sum to 1.0 (competitive 0.30).
CombinedUnnormalised(seo, geo, backlink, content_gap, competitive) ==
    seo * W_seo + geo * W_geo + backlink * W_backlink
    + content_gap * W_content_gap + competitive * 30

\* The weighted combination, in hundredths of a point.
Combined(seo, geo, backlink, content_gap, competitive) ==
    seo * W_seo + geo * W_geo + backlink * W_backlink
    + content_gap * W_content_gap + competitive * W_competitive

\* round(combined, 1): hundredths to tenths, ties to even.
RoundTenths(c100) ==
    LET q == c100 \div 10
        r == c100 % 10
    IN IF r > 5 \/ (r = 5 /\ q % 2 = 1) THEN q + 1 ELSE q

\* has_20x
Has20x(seo, geo, backlink, competitive) ==
    seo >= 40 /\ geo >= 30 /\ backlink >= 40 /\ competitive >= 40

\* The tiers without the 20x override.
PriorityScoreOnly(combined, has_20x) ==
    IF combined >= 7000 THEN "critical"
    ELSE IF combined >= 5000 THEN "high"
    ELSE IF combined >= 3000 THEN "medium"
    ELSE "low"

\* Priority tier from the unrounded combination.
Priority(combined, has_20x) ==
    IF combined >= 7000 \/ has_20x THEN "critical"
    ELSE IF combined >= 5000 THEN "high"
    ELSE IF combined >= 3000 THEN "medium"
    ELSE "low"

\* Only the competitor skip.
QualifiesAnyOwner(d) == d.competitor_brands_present # <<>>

\* The loop's two skips.
Qualifies(d) == ~d.client_present /\ d.competitor_brands_present # <<>>

\* d.serp_urls[:5] + (["(+N more)"] if more than 5)
TopUrls(urls) ==
    SubSeq(urls, 1, Min(5, Len(urls)))
    \o (IF Len(urls) > 5 THEN <<"(+" \o ToString(Len(urls) - 5) \o " more)">> ELSE <<>>)

\* The KeyOpportunity built for one qualifying record.  list(set(xs))
\* fields are kept as sets: their order is the hash-iteration order.
MakeOpportunity(d) ==
    LET seo == ScoreSeo(d)
        geo == ScoreGeo(d)
        backlink == ScoreBacklink(d)
        content_gap == ScoreContentGap(d)
        competitive == ScoreCompetitiveDensity(d)
        combined == Combined(seo, geo, backlink, content_gap, competitive)
        has_20x == Has20x(seo, geo, backlink, competitive)
    IN [domain |-> d.domain,
        display_name |-> d.display_name,
        domain_type |-> d.domain_type,
        accepts_sponsored |-> d.accepts_sponsored,
        seo_score |-> seo,
        geo_score |-> geo,
        backlink_score |-> backlink,
        content_gap_score |-> content_gap,
        competitive_density |-> competitive,
        key_opportunity_score |-> RoundTenths(combined),
        priority |-> Priority(combined, has_20x),
        estimated_20x_potential |-> has_20x,
        competitor_brands |-> d.competitor_brands_present,
        content_types |-> Range(d.serp_content_types),
        keywords |-> Range(d.serp_keywords),
        top_urls |-> TopUrls(d.serp_urls),
        niches |-> Range(d.niches),
        geo_providers |-> Range(d.geo_providers),
        recommended_actions |-> RecommendActions(d, seo, geo, backlink),
        domain_authority |-> d.domain_authority,
        monthly_traffic |-> d.monthly_traffic]

\* list.sort(key=..., reverse=True): stable, descending.  o goes after
\* every element whose key is >= its own.
RECURSIVE InsertDesc(_, _)
InsertDesc(sorted, o) ==
    IF sorted = <<>> THEN <<o>>
    ELSE IF Head(sorted).key_opportunity_score >= o.key_opportunity_score
         THEN <<Head(sorted)>> \o InsertDesc(Tail(sorted), o)
         ELSE <<o>> \o sorted

\* The list left in input order.
Unsorted(s) == s

RECURSIVE SortDesc(_)
SortDesc(s) ==
    IF s = <<>> THEN <<>>
    ELSE InsertDesc(SortDesc(SubSeq(s, 1, Len(s) - 1)), s[Len(s)])

\* The scoring loop: one record per qualifying input, in input order.
RECURSIVE ScoreLoop(_)
ScoreLoop(ds) ==
    IF ds = <<>> THEN <<>>
    ELSE (IF Qualifies(Head(ds)) THEN <<MakeOpportunity(Head(ds))>> ELSE <<>>)
         \o ScoreLoop(Tail(ds))

\* score_key_opportunities
ScoreKeyOpportunities(ds) == SortDesc(ScoreLoop(ds))

----
(***************************************************************************)
(* Inputs of the scorer.  A single record is a base record with one group  *)
(* of fields (SERP, GEO, catalog, competition) ranging over every tier of  *)
(* the scorers; a list is up to MaxList records with distinct domains.     *)
(***************************************************************************)
MaxList == 3
MaxCompetitors == 4

CompetitorList(n) == [i \in 1..n |-> "c" \o ToString(i)]

LowIntel ==
    [domain |-> "a.com", display_name |-> NoneStr, domain_type |-> NoneStr,
     accepts_sponsored |-> "None", domain_authority |-> NoneInt,
     monthly_traffic |-> NoneInt,
     serp_urls |-> <<>>, serp_keywords |-> <<>>, serp_positions |-> <<>>,
     serp_content_types |-> <<>>,
     geo_citation_count |-> 0, geo_providers |-> <<>>, geo_mentioned_brands |-> <<>>,
     competitor_brands_present |-> <<"c1">>, client_present |-> FALSE,
     niches |-> <<>>]

MidIntel ==
    [domain |-> "a.com", display_name |-> NoneStr, domain_type |-> "ugc",
     accepts_sponsored |-> "None", domain_authority |-> NoneInt,
     monthly_traffic |-> NoneInt,
     serp_urls |-> <<"u1", "u2", "u3">>, serp_keywords |-> <<"k1", "k2", "k3">>,
     serp_positions |-> <<4, 6>>, serp_content_types |-> <<"review">>,
     geo_citation_count |-> 3, geo_providers |-> <<"openai", "gemini">>,
     geo_mentioned_brands |-> <<"c1">>,
     competitor_brands_present |-> <<"c1", "c2">>, client_present |-> FALSE,
     niches |-> <<"n1">>]

HighIntel ==
    [domain |-> "a.com", display_name |-> "A", domain_type |-> "editorial",
     accepts_sponsored |-> "True", domain_authority |-> 60,
     monthly_traffic |-> 1000000,
     serp_urls |-> <<"u1", "u2", "u3", "u4", "u5">>,
     serp_keywords |-> <<"k1", "k2", "k3", "k4", "k5">>,
     serp_positions |-> <<1, 2>>,
     serp_content_types |-> <<"ranking", "review", "solution">>,
     geo_citation_count |-> 5, geo_providers |-> <<"openai", "gemini", "perplexity">>,
     geo_mentioned_brands |-> <<"c1", "c2", "c3">>,
     competitor_brands_present |-> <<"c1", "c2", "c3", "c4">>, client_present |-> FALSE,
     niches |-> <<"n1", "n2", "n3">>]

BaseRecords == {LowIntel, MidIntel, HighIntel}

UrlLists == {<<>>, <<"u1">>, <<"u1", "u2", "u3">>, <<"u1", "u2", "u3", "u4", "u5">>,
             <<"u1", "u2", "u3", "u4", "u5", "u6">>}
PositionLists == {<<>>, <<1, 5>>, <<4, 6>>, <<6, 14>>, <<11>>}
KeywordLists == {<<>>, <<"k1">>, <<"k1", "k2", "k1", "k3">>, <<"k1", "k2", "k3", "k4", "k5">>}
ContentTypeLists == {<<>>, <<"ranking">>, <<"review">>, <<"solution", "news">>,
                     <<"ranking", "review", "solution">>}
CitationCounts == {0, 1, 2, 3, 5}
ProviderLists == {<<>>, <<"openai">>, <<"openai", "gemini">>, <<"openai", "gemini", "perplexity">>}
BrandLists == {<<>>, <<"c1">>, <<"c1", "c2", "c3">>}
Authorities == {NoneInt, 5, 10, 20, 40, 60}
Traffics == {NoneInt, 0, 999, 1000, 10000, 100000, 1000000}
DomainTypes == {NoneStr, "editorial", "reference", "ugc", "corporate"}
Sponsored == {"None", "True", "False"}
NicheLists == {<<>>, <<"n1">>, <<"n1", "n2">>, <<"n1", "n2", "n3">>}

SerpVariants(b) ==
    {[b EXCEPT !.serp_urls = u, !.serp_positions = p, !.serp_keywords = k,
               !.serp_content_types = c] :
        u \in UrlLists, p \in PositionLists, k \in KeywordLists, c \in ContentTypeLists}

\* Every citation row adds one to the count and its provider to the list.
GeoVariants(b) ==
    {[b EXCEPT !.geo_citation_count = n, !.geo_providers = p,
               !.geo_mentioned_brands = m] :
        <<n, p, m>> \in {t \in CitationCounts \X ProviderLists \X BrandLists :
                            /\ (t[1] = 0) <=> (t[2] = <<>>)
                            /\ Len(t[2]) <= t[1]
                            /\ Len(t[3]) <= t[1]}}

CatalogVariants(b) ==
    {[b EXCEPT !.domain_authority = a, !.monthly_traffic = t, !.domain_type = dt,
               !.accepts_sponsored = sp] :
        a \in Authorities, t \in Traffics, dt \in DomainTypes, sp \in Sponsored}

CompetitionVariants(b) ==
    {[b EXCEPT !.competitor_brands_present = CompetitorList(n), !.client_present = cp,
               !.niches = ns] :
        n \in 0..MaxCompetitors, cp \in BOOLEAN, ns \in NicheLists}

SingleInputs ==
    UNION {SerpVariants(b) \cup GeoVariants(b) \cup CatalogVariants(b)
           \cup CompetitionVariants(b) : b \in BaseRecords}

\* Records of a list: distinct domains, client-owned and competitor-free
\* ones among them, and two that score the same.
ListRecords ==
    {[LowIntel EXCEPT !.domain = "low.com"],
     [MidIntel EXCEPT !.domain = "mid.com"],
     [MidIntel EXCEPT !.domain = "tie.com"],
     [HighIntel EXCEPT !.domain = "high.com"],
     [HighIntel EXCEPT !.domain = "client.com", !.client_present = TRUE],
     [MidIntel EXCEPT !.domain = "nocomp.com", !.competitor_brands_present = <<>>]}

ListInputs ==
    UNION {{l \in [1..n -> ListRecords] :
              \A i, j \in 1..n : i # j => l[i].domain # l[j].domain} : n \in 0..MaxList}

ScorerInputs == {<<d>> : d \in SingleInputs} \cup ListInputs

----
(***************************************************************************)
(* Gap Analyzer.  url_map is a Python dict: a sequence of records in       *)
(* insertion order, at most one per url.  competitor_brands is             *)
(* sorted(set): a set.                                                     *)
(***************************************************************************)

\* str.lower() on the strings of this model.
Lower(s) ==
    CASE s = "Acme" -> "acme"
      [] s = "ACME" -> "acme"
      [] s = "Rival" -> "rival"
      [] s = "Client" -> "client"
      [] s = "Client.com" -> "client.com"
      [] s = "WWW.Client.com" -> "www.client.com"
      [] s = "www.ElPais.com" -> "www.elpais.com"
      [] OTHER -> s

\* {n.lower() for n in names}
LowerSet(names) == {Lower(names[i]) : i \in 1..Len(names)}

\* client_brand_names, competitor_brand_names: names and aliases.
client_brand_names == <<"Client">>
competitor_brand_names == <<"Acme", "Rival">>

\* The skip at the head of both loops, without the excluded test.
KeepEntryAnyDomain(e, excluded) == e.url # ""

\* `if not url or domain in excluded: continue`
KeepEntry(e, excluded) == e.url # "" /\ e.domain \notin excluded

\* Position of url in url_map, 0 if it has no record.
UrlIndex(url_map, url) ==
    IF \E i \in 1..Len(url_map) : url_map[i].url = url
    THEN CHOOSE i \in 1..Len(url_map) : url_map[i].url = url
    ELSE 0

\* The GEO loop without `if url not in url_map`: a record per citation.
ProcessGeoCitationNoDedup(url_map, c, excluded) ==
    IF ~KeepEntry(c, excluded) THEN url_map
    ELSE
    LET m1 == Append(url_map,
                     [url |-> c.url, domain |-> c.domain, competitors |-> {},
                      client_present |-> FALSE, found_in_geo |-> FALSE,
                      found_in_serp |-> FALSE, content_type |-> NoneStr,
                      domain_type |-> c.domain_type, keyword |-> NoneStr,
                      niche |-> NoneStr])
        i == Len(m1)
        brand == c.brand_name
        r1 == [m1[i] EXCEPT !.found_in_geo = TRUE]
        r2 == IF brand = "" THEN r1
              ELSE IF Lower(brand) \in LowerSet(client_brand_names)
                   THEN [r1 EXCEPT !.client_present = TRUE]
              ELSE IF Lower(brand) \in LowerSet(competitor_brand_names)
                   THEN [r1 EXCEPT !.competitors = @ \cup {brand}]
              ELSE r1
    IN [m1 EXCEPT ![i] = r2]

\* One iteration of the GEO loop.
ProcessGeoCitation(url_map, c, excluded) ==
    IF ~KeepEntry(c, excluded) THEN url_map
    ELSE
    LET m1 == IF UrlIndex(url_map, c.url) = 0
              THEN Append(url_map,
                          [url |-> c.url, domain |-> c.domain, competitors |-> {},
                           client_present |-> FALSE, found_in_geo |-> FALSE,
                           found_in_serp |-> FALSE, content_type |-> NoneStr,
                           domain_type |-> c.domain_type, keyword |-> NoneStr,
                           niche |-> NoneStr])
              ELSE url_map
        i == UrlIndex(m1, c.url)
        brand == c.brand_name
        r1 == [m1[i] EXCEPT !.found_in_geo = TRUE]
        r2 == IF brand = "" THEN r1
              ELSE IF Lower(brand) \in LowerSet(client_brand_names)
                   THEN [r1 EXCEPT !.client_present = TRUE]
              ELSE IF Lower(brand) \in LowerSet(competitor_brand_names)
                   THEN [r1 EXCEPT !.competitors = @ \cup {brand}]
              ELSE r1
    IN [m1 EXCEPT ![i] = r2]

\* One iteration of the SERP loop.
ProcessSerpResult(url_map, s, excluded, client_doms) ==
    IF ~KeepEntry(s, excluded) THEN url_map
    ELSE
    LET is_client_domain == s.domain \in LowerSet(client_doms)
        m1 == IF UrlIndex(url_map, s.url) = 0
              THEN Append(url_map,
                          [url |-> s.url, domain |-> s.domain, competitors |-> {},
                           client_present |-> is_client_domain, found_in_geo |-> FALSE,
                           found_in_serp |-> FALSE, content_type |-> s.content_type,
                           domain_type |-> s.domain_type, keyword |-> s.keyword,
                           niche |-> s.niche])
              ELSE IF is_client_domain
                   THEN [url_map EXCEPT ![UrlIndex(url_map, s.url)].client_present = TRUE]
              ELSE url_map
        i == UrlIndex(m1, s.url)
        r == [m1[i] EXCEPT
                !.found_in_serp = TRUE,
                !.content_type = IF s.content_type # NoneStr THEN s.content_type ELSE @,
                !.keyword = IF s.keyword # NoneStr THEN s.keyword ELSE @,
                !.niche = IF s.niche # NoneStr THEN s.niche ELSE @,
                !.domain_type = IF s.domain_type # NoneStr THEN s.domain_type ELSE @]
    IN [m1 EXCEPT ![i] = r]

RECURSIVE GeoLoop(_, _, _)
GeoLoop(url_map, cs, excluded) ==
    IF cs = <<>> THEN url_map
    ELSE GeoLoop(ProcessGeoCitation(url_map, Head(cs), excluded), Tail(cs), excluded)

RECURSIVE SerpLoop(_, _, _, _)
SerpLoop(url_map, ss, excluded, client_doms) ==
    IF ss = <<>> THEN url_map
    ELSE SerpLoop(ProcessSerpResult(url_map, Head(ss), excluded, client_doms),
                  Tail(ss), excluded, client_doms)

\* min(30, n * 10) left uncapped.
ScoreOpportunityUncapped(data) ==
    LET s1 == Cardinality(data.competitors) * 10
        s2 == IF data.found_in_geo /\ data.found_in_serp THEN 25
              ELSE IF data.found_in_geo THEN 15
              ELSE IF data.found_in_serp THEN 10 ELSE 0
        s3 == IF data.content_type = "ranking" THEN 20
              ELSE IF data.content_type = "review" THEN 15
              ELSE IF data.content_type = "solution" THEN 10 ELSE 0
        s4 == IF data.domain_type = "editorial" THEN 15
              ELSE IF data.domain_type = "ugc" THEN 5 ELSE 0
    IN Min(100, s1 + s2 + s3 + s4)

\* _score_opportunity
ScoreOpportunity(data) ==
    LET n_competitors == Cardinality(data.competitors)
        s1 == Min(30, n_competitors * 10)
        s2 == IF data.found_in_geo /\ data.found_in_serp THEN 25
              ELSE IF data.found_in_geo THEN 15
              ELSE IF data.found_in_serp THEN 10 ELSE 0
        s3 == IF data.content_type = "ranking" THEN 20
              ELSE IF data.content_type = "review" THEN 15
              ELSE IF data.content_type = "solution" THEN 10 ELSE 0
        s4 == IF data.domain_type = "editorial" THEN 15
              ELSE IF data.domain_type = "ugc" THEN 5 ELSE 0
    IN Min(100, s1 + s2 + s3 + s4)

\* The gap test with the client's own mentions ignored.
IsGapCompetitorsOnly(data, client_doms) ==
    /\ data.domain \notin LowerSet(client_doms)
    /\ Cardinality(data.competitors) > 0

\* The test of the final loop: not a client-owned page, competitors
\* present, client absent.
IsGap(data, client_doms) ==
    /\ data.domain \notin LowerSet(client_doms)
    /\ Cardinality(data.competitors) > 0
    /\ ~data.client_present

MakeGapOpportunity(data) ==
    [url |-> data.url, domain |-> data.domain,
     competitor_brands |-> data.competitors,
     client_present |-> FALSE,
     found_in_geo |-> data.found_in_geo, found_in_serp |-> data.found_in_serp,
     content_type |-> data.content_type, domain_type |-> data.domain_type,
     opportunity_score |-> ScoreOpportunity(data),
     keyword |-> data.keyword, niche |-> data.niche]

RECURSIVE GapLoop(_, _)
GapLoop(url_map, client_doms) ==
    IF url_map = <<>> THEN <<>>
    ELSE (IF IsGap(Head(url_map), client_doms)
          THEN <<MakeGapOpportunity(Head(url_map))>> ELSE <<>>)
         \o GapLoop(Tail(url_map), client_doms)

\* opportunities.sort(key=opportunity_score, reverse=True): stable.
RECURSIVE GapInsertDesc(_, _)
GapInsertDesc(sorted, o) ==
    IF sorted = <<>> THEN <<o>>
    ELSE IF Head(sorted).opportunity_score >= o.opportunity_score
         THEN <<Head(sorted)>> \o GapInsertDesc(Tail(sorted), o)
         ELSE <<o>> \o sorted

RECURSIVE GapSortDesc(_)
GapSortDesc(s) ==
    IF s = <<>> THEN <<>>
    ELSE GapInsertDesc(GapSortDesc(SubSeq(s, 1, Len(s) - 1)), s[Len(s)])

\* url_map after both loops.
BuildUrlMap(geo, serp, client_doms, excluded) ==
    SerpLoop(GeoLoop(<<>>, geo, excluded), serp, excluded, client_doms)

\* analyze_gaps
AnalyzeGaps(geo, serp, client_doms, excluded) ==
    LET url_map == BuildUrlMap(geo, serp, client_doms, excluded)
        opps == GapSortDesc(GapLoop(url_map, client_doms))
    IN [total_urls_analyzed |-> Len(url_map),
        gaps_found |-> Len(opps),
        opportunities |-> opps]

----
(***************************************************************************)
(* Inputs of the gap analyzer: rows as the gap-analysis task collects      *)
(* them.  Domains are urlparse().hostname values (lowercase); the domain   *)
(* type comes from classify_by_rules(domain).                              *)
(***************************************************************************)
MaxItems == 2
MaxGapCompetitors == 4

GapUrls == {"u1", "u2"}
GapDomains == {"elpais.com", "bbva.es", "client.com"}
GapBrands == {"", "Acme", "ACME", "Client"}
ClientDomainChoices == {<<>>, <<"Client.com">>}
ExcludedChoices == {{}, {"bbva.es"}, {"bbva.es", "client.com"}}

\* classify_by_rules(domain).domain_type on the domains of this model.
ClassifyByRulesType(domain) ==
    CASE domain = "elpais.com" -> "editorial"
      [] domain = "elmundo.es" -> "editorial"
      [] domain = "bbva.es" -> "competitor"
      [] OTHER -> NoneStr

GeoEntries ==
    {[url |-> u, domain |-> d, brand_name |-> b, domain_type |-> ClassifyByRulesType(d)] :
        u \in GapUrls, d \in GapDomains, b \in GapBrands}
    \cup {[url |-> "", domain |-> "elpais.com", brand_name |-> "Acme",
           domain_type |-> ClassifyByRulesType("elpais.com")]}

SerpEntries ==
    {[url |-> u, domain |-> d, position |-> 1, keyword |-> "kw", niche |-> "n1",
      content_type |-> ct, domain_type |-> ClassifyByRulesType(d)] :
        u \in GapUrls, d \in GapDomains, ct \in {NoneStr, "ranking"}}
    \cup {[url |-> "", domain |-> "elpais.com", position |-> 1, keyword |-> "kw",
           niche |-> "n1", content_type |-> "ranking",
           domain_type |-> ClassifyByRulesType("elpais.com")]}

\* url_map records handed to _score_opportunity: a record is found in at
\* least one source, and competitors come from GEO citations only.
ScoreInputs ==
    {r \in {[competitors |-> {"c" \o ToString(i) : i \in 1..n},
             found_in_geo |-> g, found_in_serp |-> sp,
             content_type |-> ct, domain_type |-> dt] :
               n \in 0..MaxGapCompetitors, g \in BOOLEAN, sp \in BOOLEAN,
               ct \in {NoneStr, "ranking", "review", "solution", "news", "other"},
               dt \in {NoneStr, "editorial", "ugc", "corporate", "competitor"}} :
        /\ r.found_in_geo \/ r.found_in_serp
        /\ r.competitors # {} => r.found_in_geo}

EmptyGapResult == [total_urls_analyzed |-> 0, gaps_found |-> 0, opportunities |-> <<>>]

----
(***************************************************************************)
(* aggregator.py: collect_domain_intelligence.  The accumulator `intel` is *)
(* a dict keyed by domain: a sequence of records in insertion order.  The  *)
(* queries on gap_items, source_citations, serp_results,                   *)
(* content_classifications and domains carry no ORDER BY: the rows of a    *)
(* table are a set and each query returns them in some order.              *)
(***************************************************************************)

\* DomainIntelligence(domain=domain)
NewIntel(domain) ==
    [domain |-> domain, display_name |-> NoneStr, domain_type |-> NoneStr,
     accepts_sponsored |-> "None", domain_authority |-> NoneInt,
     monthly_traffic |-> NoneInt,
     serp_urls |-> <<>>, serp_keywords |-> <<>>, serp_positions |-> <<>>,
     serp_content_types |-> <<>>,
     geo_citation_count |-> 0, geo_providers |-> <<>>, geo_mentioned_brands |-> <<>>,
     competitor_brands_present |-> <<>>, client_present |-> FALSE,
     niches |-> <<>>]

\* Truth value of an Optional[str].
StrTruthy(s) == s # NoneStr /\ s # ""

\* str.removeprefix("www.") on the strings of this model.
RemovePrefixWww(s) ==
    CASE s = "www.client.com" -> "client.com"
      [] s = "www.elmundo.es" -> "elmundo.es"
      [] s = "www.elpais.com" -> "elpais.com"
      [] OTHER -> s

\* urlparse(url).hostname or "", on the URLs of this model.
Hostname(url) ==
    CASE url = "https://elpais.com/a1" -> "elpais.com"
      [] url = "https://elpais.com/a2" -> "elpais.com"
      [] url = "https://elpais.com/a3" -> "elpais.com"
      [] url = "https://WWW.ElMundo.es/b1" -> "www.elmundo.es"
      [] url = "https://elmundo.es/b2" -> "elmundo.es"
      [] url = "https://client.com/c1" -> "client.com"
      [] OTHER -> ""

\* _extract_domain(url); urlparse lowercases the hostname.
ExtractDomain(url) == RemovePrefixWww(Hostname(url))

\* row.domain or _extract_domain(row.url)
RowDomain(row) == IF StrTruthy(row.domain) THEN row.domain ELSE ExtractDomain(row.url)

\* if x not in xs: xs.append(x)
AppendUnique(xs, x) == IF x \in Range(xs) THEN xs ELSE Append(xs, x)

\* for x in ys: if x not in xs: xs.append(x)
ExtendUnique(xs, ys) ==
    LET f[i \in 0..Len(ys)] == IF i = 0 THEN xs ELSE AppendUnique(f[i - 1], ys[i])
    IN f[Len(ys)]

\* Position of domain in the accumulator, 0 if absent.
IntelIndex(acc, domain) ==
    IF \E i \in 1..Len(acc) : acc[i].domain = domain
    THEN CHOOSE i \in 1..Len(acc) : acc[i].domain = domain
    ELSE 0

IntelKeys(acc) == {acc[i].domain : i \in 1..Len(acc)}

\* _get(domain): the accumulator with a record for domain.
Get(acc, domain) ==
    IF domain \in IntelKeys(acc) THEN acc ELSE Append(acc, NewIntel(domain))

\* client_domains: normalised domains of the client brands.
ClientDomainsOf(brands) ==
    {RemovePrefixWww(Lower(b.domain)) : b \in {x \in brands : x.is_client /\ StrTruthy(x.domain)}}

\* brand_id_to_name
BrandIds(brands) == {b.id : b \in brands}
BrandName(brands, id) == (CHOOSE b \in brands : b.id = id).name

\* Body of the loop over gap items.
IntelGapItem(acc, gi) ==
    LET domain == RowDomain(gi) IN
    IF domain = "" THEN acc
    ELSE LET a == Get(acc, domain)
             i == IntelIndex(a, domain)
             d == a[i]
         IN [a EXCEPT ![i] =
                [d EXCEPT
                    !.serp_urls = Append(@, gi.url),
                    !.serp_content_types =
                        IF StrTruthy(gi.content_type) THEN Append(@, gi.content_type) ELSE @,
                    !.domain_type =
                        IF StrTruthy(gi.domain_type) /\ ~StrTruthy(@) THEN gi.domain_type ELSE @,
                    !.serp_keywords =
                        IF StrTruthy(gi.keyword) THEN Append(@, gi.keyword) ELSE @,
                    !.niches = IF StrTruthy(gi.niche) THEN AppendUnique(@, gi.niche) ELSE @,
                    !.competitor_brands_present = ExtendUnique(@, gi.competitor_brands),
                    !.client_present = @ \/ gi.client_present]]

\* Body of the loop over (citation, provider) rows.
IntelCitation(acc, c, brands) ==
    LET domain == RowDomain(c) IN
    IF domain = "" THEN acc
    ELSE LET a == Get(acc, domain)
             i == IntelIndex(a, domain)
             d == a[i]
         IN [a EXCEPT ![i] =
                [d EXCEPT
                    !.geo_citation_count = @ + 1,
                    !.geo_providers = AppendUnique(@, c.provider),
                    !.geo_mentioned_brands =
                        IF c.brand_id # NoneStr /\ c.brand_id \in BrandIds(brands)
                        THEN AppendUnique(@, BrandName(brands, c.brand_id))
                        ELSE @]]

\* keyword_map.get(query_id), niche_map.get(query_id)
QueryOf(queries, id) == CHOOSE q \in queries : q.id = id

\* Body of the loop over SERP results.
IntelSerpResult(acc, sr, queries) ==
    LET domain == RowDomain(sr) IN
    IF domain = "" THEN acc
    ELSE LET a == Get(acc, domain)
             i == IntelIndex(a, domain)
             d == a[i]
             kw == QueryOf(queries, sr.query_id).keyword
             niche == QueryOf(queries, sr.query_id).niche
         IN [a EXCEPT ![i] =
                [d EXCEPT
                    !.serp_urls = AppendUnique(@, sr.url),
                    !.serp_positions = Append(@, sr.position),
                    !.serp_keywords = IF StrTruthy(kw) THEN AppendUnique(@, kw) ELSE @,
                    !.niches = IF StrTruthy(niche) THEN AppendUnique(@, niche) ELSE @]]

\* serp_result_domains.get(cc.serp_result_id, "")
SerpResultDomain(results, id) ==
    IF \E r \in results : r.id = id
    THEN RowDomain(CHOOSE r \in results : r.id = id)
    ELSE ""

\* Body of the loop over content classifications.
IntelClassification(acc, cc, results) ==
    LET domain == SerpResultDomain(results, cc.serp_result_id) IN
    IF domain # "" /\ domain \in IntelKeys(acc)
    THEN LET i == IntelIndex(acc, domain) IN
         [acc EXCEPT ![i].serp_content_types = AppendUnique(@, cc.content_type)]
    ELSE acc

\* Body of the loop over the domain catalog.
IntelCatalog(acc, dom) ==
    IF dom.domain \in IntelKeys(acc)
    THEN LET i == IntelIndex(acc, dom.domain)
             d == acc[i]
         IN [acc EXCEPT ![i] =
                [d EXCEPT
                    !.display_name = dom.display_name,
                    !.domain_type = IF StrTruthy(dom.domain_type) THEN dom.domain_type ELSE @,
                    !.accepts_sponsored =
                        IF dom.accepts_sponsored # "None" THEN dom.accepts_sponsored ELSE @,
                    !.domain_authority = dom.domain_authority,
                    !.monthly_traffic = dom.monthly_traffic_estimate]]
    ELSE acc

\* A collection that skips step 5: the mutant of MarkClientDomains.
MarkNoDomain(acc, client_doms) == acc

\* 5. Mark client domains.
MarkClientDomains(acc, client_doms) ==
    [i \in 1..Len(acc) |->
        IF acc[i].domain \in client_doms
        THEN [acc[i] EXCEPT !.client_present = TRUE]
        ELSE acc[i]]

\* list(dict.fromkeys(urls)): first occurrences, in order.
DedupUrls(urls) == ExtendUnique(<<>>, urls)

DedupAll(acc) ==
    [i \in 1..Len(acc) |-> [acc[i] EXCEPT !.serp_urls = DedupUrls(@)]]

\* The orders in which a query without ORDER BY can return a set of rows.
Orders(rows) ==
    {s \in [1..Cardinality(rows) -> rows] : Range(s) = rows}

\* Run `for row in rows` for the five loops.
GapItemsLoop(acc, rows) ==
    LET f[i \in 0..Len(rows)] == IF i = 0 THEN acc ELSE IntelGapItem(f[i - 1], rows[i])
    IN f[Len(rows)]

CitationsLoop(acc, rows, brands) ==
    LET f[i \in 0..Len(rows)] == IF i = 0 THEN acc ELSE IntelCitation(f[i - 1], rows[i], brands)
    IN f[Len(rows)]

SerpResultsLoop(acc, rows, queries) ==
    LET f[i \in 0..Len(rows)] ==
            IF i = 0 THEN acc ELSE IntelSerpResult(f[i - 1], rows[i], queries)
    IN f[Len(rows)]

ClassificationsLoop(acc, rows, results) ==
    LET f[i \in 0..Len(rows)] ==
            IF i = 0 THEN acc ELSE IntelClassification(f[i - 1], rows[i], results)
    IN f[Len(rows)]

CatalogLoop(acc, rows) ==
    LET f[i \in 0..Len(rows)] == IF i = 0 THEN acc ELSE IntelCatalog(f[i - 1], rows[i])
    IN f[Len(rows)]

\* Most rows of gap_items and of source_citations in a data set.
MaxRows == 2

\* brands of the project; the client's domain is stored as typed.
BrandRows(client_domain) ==
    {[id |-> "b_client", name |-> "Client", is_client |-> TRUE, domain |-> client_domain],
     [id |-> "b_acme", name |-> "Acme", is_client |-> FALSE, domain |-> NoneStr],
     [id |-> "b_rival", name |-> "Rival", is_client |-> FALSE, domain |-> NoneStr]}

\* gap_items of the latest completed analysis, as _run_gap_analysis
\* stores them: lowercased competitor names, client_present false,
\* domain_type = classify_by_rules(domain).
GapItemRows ==
    {[url |-> "https://elpais.com/a1", domain |-> "elpais.com",
      competitor_brands |-> <<"acme">>, client_present |-> FALSE,
      content_type |-> "ranking", domain_type |-> ClassifyByRulesType("elpais.com"),
      keyword |-> "k1", niche |-> "n1"],
     [url |-> "https://elmundo.es/b2", domain |-> "elmundo.es",
      competitor_brands |-> <<"acme">>, client_present |-> FALSE,
      content_type |-> "ranking", domain_type |-> ClassifyByRulesType("elmundo.es"),
      keyword |-> "k1", niche |-> "n1"],
     [url |-> "https://elpais.com/a2", domain |-> "elpais.com",
      competitor_brands |-> <<"acme", "rival">>, client_present |-> FALSE,
      content_type |-> NoneStr, domain_type |-> ClassifyByRulesType("elpais.com"),
      keyword |-> "k2", niche |-> NoneStr],
     [url |-> "https://elpais.com/a3", domain |-> "elpais.com",
      competitor_brands |-> <<"acme">>, client_present |-> FALSE,
      content_type |-> "ranking", domain_type |-> ClassifyByRulesType("elpais.com"),
      keyword |-> "k1", niche |-> "n1"],
     [url |-> "https://client.com/c1", domain |-> "client.com",
      competitor_brands |-> <<"acme">>, client_present |-> FALSE,
      content_type |-> "review", domain_type |-> ClassifyByRulesType("client.com"),
      keyword |-> "k1", niche |-> "n1"],
     [url |-> "https://WWW.ElMundo.es/b1", domain |-> "",
      competitor_brands |-> <<"rival">>, client_present |-> FALSE,
      content_type |-> NoneStr, domain_type |-> ClassifyByRulesType(""),
      keyword |-> NoneStr, niche |-> "n2"]}

\* (SourceCitation, GeoResponse.provider) rows of the latest geo run.
CitationRows ==
    {[id |-> "c1", url |-> "https://elpais.com/a1", domain |-> "elpais.com",
      provider |-> "openai", brand_id |-> "b_acme"],
     [id |-> "c2", url |-> "https://elmundo.es/b2", domain |-> NoneStr,
      provider |-> "gemini", brand_id |-> NoneStr],
     [id |-> "c3", url |-> "https://elpais.com/a1", domain |-> "elpais.com",
      provider |-> "gemini", brand_id |-> "b_rival"]}

SerpQueryRows ==
    {[id |-> "q1", keyword |-> "k1", niche |-> "n1"],
     [id |-> "q2", keyword |-> "k3", niche |-> NoneStr]}

SerpResultRows ==
    {[id |-> "s1", url |-> "https://elpais.com/a1", domain |-> "elpais.com",
      position |-> 3, query_id |-> "q1"],
     [id |-> "s2", url |-> "https://elmundo.es/b2", domain |-> "elmundo.es",
      position |-> 12, query_id |-> "q2"]}

\* serp_result_id is unique and a foreign key.
ClassificationRows ==
    {[serp_result_id |-> "s1", content_type |-> "review"],
     [serp_result_id |-> "s2", content_type |-> "ranking"]}

\* domains.domain is unique.
CatalogRows ==
    {[domain |-> "elpais.com", display_name |-> "El Pais", domain_type |-> "corporate",
      accepts_sponsored |-> "True", domain_authority |-> 60,
      monthly_traffic_estimate |-> 100000],
     [domain |-> "elmundo.es", display_name |-> NoneStr, domain_type |-> NoneStr,
      accepts_sponsored |-> "None", domain_authority |-> NoneInt,
      monthly_traffic_estimate |-> NoneInt]}

EmptyDb ==
    [brands |-> {}, gap_items |-> {}, citations |-> {}, serp_queries |-> {},
     serp_results |-> {}, classifications |-> {}, catalog |-> {}]

\* The stored data of one project.
Datasets ==
    {d \in [brands : {BrandRows(cd) : cd \in {NoneStr, "WWW.Client.com"}},
            gap_items : {g \in SUBSET GapItemRows : Cardinality(g) <= MaxRows},
            citations : {c \in SUBSET CitationRows : Cardinality(c) <= MaxRows},
            serp_queries : {{}, SerpQueryRows},
            serp_results : SUBSET SerpResultRows,
            classifications : SUBSET ClassificationRows,
            catalog : SUBSET CatalogRows] :
        \* foreign keys: a result has its query, a classification its result
        /\ \A sr \in d.serp_results : \E q \in d.serp_queries : q.id = sr.query_id
        /\ \A cc \in d.classifications : \E sr \in d.serp_results : sr.id = cc.serp_result_id}

NoRun == [completed |-> FALSE, opportunities |-> <<>>]

----
(***************************************************************************)
(* geo/response_parser.py: parse_response.  A text is a sequence of        *)
(* tokens: words, markdown links [title](url) and runs that start with     *)
(* http(s)://.  A regex match lies inside one token and matches come in    *)
(* token order.  Sentiment, is_recommended and context are functions of    *)
(* the sentence around a match and are left out of the mention records.    *)
(***************************************************************************)

WordToken(s) == [kind |-> "word", s |-> s, title |-> ""]
LinkToken(title, url) == [kind |-> "md", s |-> url, title |-> title]
UrlToken(s) == [kind |-> "url", s |-> s, title |-> ""]

\* The characters of a token as the regexes see them, lowercased: the
\* names of this model that occur in it (re.IGNORECASE substring search).
NamesIn(tok) ==
    CASE tok.s = "Acme" -> {"acme"}
      [] tok.s = "ACME Corp" -> {"acme", "acme corp"}
      [] tok.s = "Rival" -> {"rival"}
      [] tok.s = "https://acme.com/p" -> {"acme"}
      [] OTHER -> {}

\* str.lower() on the brand names and aliases of this model.
LowerName(s) ==
    CASE s = "Acme" -> "acme"
      [] s = "ACME" -> "acme"
      [] s = "Acme Corp" -> "acme corp"
      [] s = "Rival" -> "rival"
      [] OTHER -> s

\* [m.start() for m in pattern.finditer(text)] for re.escape(brand).
Finditer(brand, txt) ==
    SelectSeq([i \in 1..Len(txt) |-> i], LAMBDA i : LowerName(brand) \in NamesIn(txt[i]))

\* seen_brands[brand_lower]
SeenPosition(seen_brands, key) == (CHOOSE e \in seen_brands : e.key = key).position

\* The matches of one brand: the body of `for brand in brand_names`.
\* st = [seen_brands, position_counter, mentions].
MentionsOfBrand(st, brand, txt) ==
    LET ms == Finditer(brand, txt)
        key == LowerName(brand)
        known == \E e \in st.seen_brands : e.key = key
    IN IF ms = <<>> THEN st
       ELSE LET counter == IF known THEN st.position_counter ELSE st.position_counter + 1
                seen == IF known THEN st.seen_brands
                        ELSE st.seen_brands \cup {[key |-> key, position |-> counter]}
                pos == SeenPosition(seen, key)
            IN [seen_brands |-> seen,
                position_counter |-> counter,
                mentions |-> st.mentions
                    \o [i \in 1..Len(ms) |-> [brand_name |-> brand, position |-> pos]]]

\* for brand in brand_names: for match in pattern.finditer(text): ...
AllMentions(txt, names) ==
    LET f[i \in 0..Len(names)] ==
            IF i = 0
            THEN [seen_brands |-> {}, position_counter |-> 0, mentions |-> <<>>]
            ELSE MentionsOfBrand(f[i - 1], names[i], txt)
    IN f[Len(names)].mentions

\* unique[key] = m when key is new or m.position is lower; unique is a
\* dict: a sequence in insertion order.
UniqueMentions(ms) ==
    LET f[i \in 0..Len(ms)] ==
            IF i = 0 THEN <<>>
            ELSE LET u == f[i - 1]
                     m == ms[i]
                     key == LowerName(m.brand_name)
                     at == {j \in 1..Len(u) : LowerName(u[j].brand_name) = key}
                 IN IF at = {} THEN Append(u, m)
                    ELSE LET j == CHOOSE j \in at : TRUE
                         IN IF m.position < u[j].position THEN [u EXCEPT ![j] = m] ELSE u
    IN f[Len(ms)]

RECURSIVE InsertByPosition(_, _)
InsertByPosition(sorted, m) ==
    IF sorted = <<>> THEN <<m>>
    ELSE IF Head(sorted).position <= m.position
         THEN <<Head(sorted)>> \o InsertByPosition(Tail(sorted), m)
         ELSE <<m>> \o sorted

\* sorted(unique.values(), key=lambda m: m.position): stable, ascending.
SortByPosition(ms) ==
    LET f[i \in 0..Len(ms)] == IF i = 0 THEN <<>> ELSE InsertByPosition(f[i - 1], ms[i])
    IN f[Len(ms)]

ParseMentions(txt, names) == SortByPosition(UniqueMentions(AllMentions(txt, names)))

\* urlparse(url).hostname without "www.", on the URLs of this model.
CitationDomain(url) ==
    CASE url = "https://elpais.com/a1" -> "elpais.com"
      [] url = "https://elpais.com/a1," -> "elpais.com"
      [] url = "https://elpais.com/a1,b" -> "elpais.com"
      [] url = "https://elpais.com/a1." -> "elpais.com"
      [] url = "https://www.elmundo.es/b1" -> "elmundo.es"
      [] url = "https://acme.com/p" -> "acme.com"
      [] OTHER -> ""

\* _URL_RE on a run starting with http(s)://: the match stops before the
\* first of ) ] " ' > , and trailing dots are stripped.
BareUrl(s) ==
    CASE s = "https://elpais.com/a1,b" -> "https://elpais.com/a1"
      [] s = "https://elpais.com/a1." -> "https://elpais.com/a1"
      [] OTHER -> s

\* 1. native citations: entries with a non-empty url, position as given.
NativeCitations(native) ==
    LET kept == SelectSeq(native, LAMBDA c : c.url # "")
    IN [i \in 1..Len(kept) |->
            [url |-> kept[i].url, domain |-> CitationDomain(kept[i].url),
             title |-> NoneStr, position |-> kept[i].position]]

\* 2. markdown links, every match.
MarkdownCitations(txt) ==
    LET links == SelectSeq(txt, LAMBDA t : t.kind = "md")
    IN [i \in 1..Len(links) |->
            [url |-> links[i].s, domain |-> CitationDomain(links[i].s),
             title |-> links[i].title, position |-> NoneInt]]

\* 3. bare URLs not yet in existing_urls.
BareCitations(cits, txt) ==
    LET runs == SelectSeq(txt, LAMBDA t : t.kind \in {"md", "url"})
        f[i \in 0..Len(runs)] ==
            IF i = 0 THEN cits
            ELSE LET url == BareUrl(runs[i].s)
                     existing_urls == {f[i - 1][j].url : j \in 1..Len(f[i - 1])}
                 IN IF url \notin existing_urls
                    THEN Append(f[i - 1],
                                [url |-> url, domain |-> CitationDomain(url),
                                 title |-> NoneStr, position |-> NoneInt])
                    ELSE f[i - 1]
    IN f[Len(runs)]

\* if c.position is None: c.position = idx + 1
AssignPositions(cits) ==
    [i \in 1..Len(cits) |->
        IF cits[i].position = NoneInt THEN [cits[i] EXCEPT !.position = i] ELSE cits[i]]

ParseCitations(txt, native) ==
    AssignPositions(BareCitations(NativeCitations(native) \o MarkdownCitations(txt), txt))

\* parse_response(text, brand_names, native_citations=...)
ParseResponse(txt, names, native) ==
    [mentions |-> ParseMentions(txt, names), citations |-> ParseCitations(txt, native)]

\* PerplexityAdapter.query: the provider's citation URLs, numbered from 1.
PerplexityCitations(raw) == [i \in 1..Len(raw) |-> [url |-> raw[i], position |-> i]]


\* Longest text, in tokens.
MaxTokens == 3

Tokens ==
    {WordToken("Acme"), WordToken("ACME Corp"), WordToken("Rival"), WordToken("and"),
     LinkToken("a", "https://elpais.com/a1"), LinkToken("b", "https://elpais.com/a1"),
     LinkToken("c", "https://elpais.com/a1,b"),
     UrlToken("https://elpais.com/a1."), UrlToken("https://acme.com/p"),
     UrlToken("https://www.elmundo.es/b1")}

Texts == UNION {[1..n -> Tokens] : n \in 0..MaxTokens}

\* brand_names as _run_geo_analysis builds it: each brand's name followed
\* by its aliases, brands in the order the query returns them.
BrandNameLists ==
    {<<>>, <<"Rival">>,
     <<"Acme", "Acme Corp", "Rival">>, <<"Rival", "Acme", "Acme Corp">>,
     <<"Acme", "ACME", "Rival">>}

\* The brand a name or alias belongs to (_find_brand_id).
BrandOfName(name) ==
    CASE LowerName(name) \in {"acme", "acme corp"} -> "b_acme"
      [] LowerName(name) = "rival" -> "b_rival"
      [] OTHER -> NoneStr

\* The citation URLs a provider returns with a response.
ProviderCitationLists ==
    {<<>>, <<"https://elpais.com/a1">>, <<"", "https://acme.com/p">>,
     <<"https://acme.com/p", "https://elpais.com/a1">>}

EmptyParsed == [mentions |-> <<>>, citations |-> <<>>]

InitParse ==
    /\ text \in Texts
    /\ brand_names \in BrandNameLists
    /\ native_citations \in {PerplexityCitations(raw) : raw \in ProviderCitationLists}
    /\ parsed = EmptyParsed
    /\ parse_pc = "input"

IdleParse ==
    /\ text = <<>>
    /\ brand_names = <<>>
    /\ native_citations = <<>>
    /\ parsed = EmptyParsed
    /\ parse_pc = "idle"

----
(***************************************************************************)
(* geo/aggregator.py: aggregate.  Percentages and average positions are    *)
(* kept in tenths, sentiment scores in hundredths; round(x, n) rounds the  *)
(* exact quotient half to even.                                            *)
(***************************************************************************)

\* round(num / den) for den > 0, half to even.
RoundDiv(num, den) ==
    LET a == IF num < 0 THEN -num ELSE num
        q == a \div den
        r == a % den
        up == IF 2 * r > den \/ (2 * r = den /\ q % 2 = 1) THEN q + 1 ELSE q
    IN IF num < 0 THEN -up ELSE up

\* str.lower() on brand names; mention names outside the tracked list
\* lower to themselves.
AggKey(name) == IF name = "Third" THEN "third" ELSE LowerName(name)

\* The mentions of all responses in loop order, with the response's
\* provider and prompt_id.
TaggedMentions(responses) ==
    LET f[i \in 0..Len(responses)] ==
            IF i = 0 THEN <<>>
            ELSE f[i - 1] \o
                 [j \in 1..Len(responses[i].mentions) |->
                    [brand_name |-> responses[i].mentions[j].brand_name,
                     position |-> responses[i].mentions[j].position,
                     sentiment_score |-> responses[i].mentions[j].sentiment_score,
                     is_recommended |-> responses[i].mentions[j].is_recommended,
                     provider |-> responses[i].provider,
                     prompt_id |-> responses[i].prompt_id]]
    IN f[Len(responses)]

\* The citations of all responses in loop order, with the provider.
TaggedCitations(responses) ==
    LET f[i \in 0..Len(responses)] ==
            IF i = 0 THEN <<>>
            ELSE f[i - 1] \o
                 [j \in 1..Len(responses[i].citations) |->
                    [url |-> responses[i].citations[j].url,
                     domain |-> responses[i].citations[j].domain,
                     title |-> responses[i].citations[j].title,
                     provider |-> responses[i].provider]]
    IN f[Len(responses)]

\* providers_set
ProvidersSet(responses) == {responses[i].provider : i \in 1..Len(responses)}

\* accum[key].per_provider.get(prov, []) and, for prov = NoneStr,
\* the mentions behind accum[key].positions.
AccumMentions(responses, names, key, prov) ==
    SelectSeq(TaggedMentions(responses),
              LAMBDA m : /\ AggKey(m.brand_name) = key
                         /\ key \in {AggKey(names[i]) : i \in 1..Len(names)}
                         /\ (prov = NoneStr \/ m.provider = prov))

\* sum(len(accum[b.lower()]...) for b in brand_names)
TotalMentions(responses, names, prov) ==
    SumSeq([i \in 1..Len(names) |->
                Len(AccumMentions(responses, names, AggKey(names[i]), prov))])

\* round(sum(positions) / len(positions), 1), None for no positions.
AvgPosition(ms) ==
    IF ms = <<>> THEN NoneInt
    ELSE RoundDiv(10 * SumSeq([i \in 1..Len(ms) |-> ms[i].position]), Len(ms))

\* round(sum(sentiments) / len(sentiments), 2), 0.0 for no sentiments.
AvgSentiment(ms) ==
    IF ms = <<>> THEN 0
    ELSE RoundDiv(SumSeq([i \in 1..Len(ms) |-> ms[i].sentiment_score]), Len(ms))

VisibilityPct(count, total) == IF total # 0 THEN RoundDiv(1000 * count, total) ELSE 0

SentimentLabel(avg_sent) ==
    IF avg_sent > 20 THEN "positive" ELSE IF avg_sent < -20 THEN "negative" ELSE "neutral"

ProviderStatsGlobalTotal(responses, names, key, prov) ==
    LET ms == AccumMentions(responses, names, key, prov)
    IN [provider |-> prov,
        mention_count |-> Len(ms),
        avg_position |-> AvgPosition(ms),
        avg_sentiment_score |-> AvgSentiment(ms),
        visibility_pct |-> VisibilityPct(Len(ms), TotalMentions(responses, names, NoneStr))]

\* ProviderStats of one brand for one provider.
ProviderStatsOf(responses, names, key, prov) ==
    LET ms == AccumMentions(responses, names, key, prov)
    IN [provider |-> prov,
        mention_count |-> Len(ms),
        avg_position |-> AvgPosition(ms),
        avg_sentiment_score |-> AvgSentiment(ms),
        visibility_pct |-> VisibilityPct(Len(ms), TotalMentions(responses, names, prov))]

\* BrandMetrics of one entry of brand_names.
BrandMetricsOf(responses, names, brand) ==
    LET key == AggKey(brand)
        ms == AccumMentions(responses, names, key, NoneStr)
        avg_sent == AvgSentiment(ms)
    IN [brand_name |-> brand,
        visibility_pct |-> VisibilityPct(Len(ms), TotalMentions(responses, names, NoneStr)),
        avg_position |-> AvgPosition(ms),
        avg_sentiment_score |-> avg_sent,
        sentiment_label |-> SentimentLabel(avg_sent),
        mention_count |-> Len(ms),
        recommendation_count |-> Cardinality({i \in 1..Len(ms) : ms[i].is_recommended}),
        provider_breakdown |->
            [prov \in ProvidersSet(responses) |->
                ProviderStatsOf(responses, names, key, prov)]]

RECURSIVE InsertByVisibility(_, _)
InsertByVisibility(sorted, b) ==
    IF sorted = <<>> THEN <<b>>
    ELSE IF Head(sorted).visibility_pct >= b.visibility_pct
         THEN <<Head(sorted)>> \o InsertByVisibility(Tail(sorted), b)
         ELSE <<b>> \o sorted

\* brands.sort(key=visibility_pct, reverse=True): stable.
AggregateBrands(responses, names) ==
    LET f[i \in 0..Len(names)] ==
            IF i = 0 THEN <<>>
            ELSE InsertByVisibility(f[i - 1], BrandMetricsOf(responses, names, names[i]))
    IN f[Len(names)]

\* The URLs of this model in the order sorted() puts strings.
UrlsSorted ==
    <<"https://elmundo.es/x/b2-nota", "https://elpais.com/",
      "https://elpais.com/economia/a1", "https://elpais.com/mejores-bancos">>

\* sorted(u for u in urls)
SortedUrls(urls) == SelectSeq(UrlsSorted, LAMBDA u : u \in urls)

\* _has_article_path(url): the path without slashes is longer than 4.
HasArticlePath(url) ==
    url \in {"https://elmundo.es/x/b2-nota", "https://elpais.com/economia/a1",
             "https://elpais.com/mejores-bancos"}

\* _title_from_url(url): the last path segment as a title, "" if shorter
\* than 3.
TitleFromUrl(url) ==
    CASE url = "https://elmundo.es/x/b2-nota" -> "B2 Nota"
      [] url = "https://elpais.com/mejores-bancos" -> "Mejores Bancos"
      [] OTHER -> ""

\* content_classifier.classify(url, "").content_type
ClassifyUrl(url) ==
    IF url = "https://elpais.com/ranking/bancos" THEN "ranking" ELSE "other"

\* The keyword tiers on a lowercased title or URL: ranking, review,
\* solution, or "other" when no keyword occurs.
KeywordType(check_text) ==
    CASE check_text = "Best banks" -> "ranking"
      [] check_text = "https://elpais.com/mejores-bancos" -> "ranking"
      [] check_text = "Opinion" -> "review"
      [] OTHER -> "other"

\* Citations that count: those with a domain.
DomainCitations(responses) ==
    SelectSeq(TaggedCitations(responses), LAMBDA c : c.domain # "")

\* domain_counts: a dict, (domain, count) in first-seen order.
DomainCounts(responses) ==
    LET cs == DomainCitations(responses)
        f[i \in 0..Len(cs)] ==
            IF i = 0 THEN <<>>
            ELSE LET at == {j \in 1..Len(f[i - 1]) : f[i - 1][j].domain = cs[i].domain}
                 IN IF at = {}
                    THEN Append(f[i - 1], [domain |-> cs[i].domain, count |-> 1])
                    ELSE LET j == CHOOSE j \in at : TRUE
                         IN [f[i - 1] EXCEPT ![j].count = @ + 1]
    IN f[Len(cs)]

\* domain_providers[d], domain_urls[d]
DomainProviders(responses, d) ==
    {c.provider : c \in {x \in Range(DomainCitations(responses)) : x.domain = d}}

DomainUrls(responses, d) ==
    {c.url : c \in {x \in Range(DomainCitations(responses)) : x.domain = d /\ x.url # ""}}

\* domain_url_titles[d].get(url, ""): the title of the last citation of
\* url that has one.
UrlTitle(responses, d, url) ==
    LET cs == SelectSeq(DomainCitations(responses),
                        LAMBDA c : c.domain = d /\ c.url = url /\ c.title # "")
    IN IF cs = <<>> THEN "" ELSE cs[Len(cs)].title

\* First element of a sequence satisfying a test, or a default.
FirstOr(s, Test(_), default) ==
    IF \E i \in 1..Len(s) : Test(s[i])
    THEN s[CHOOSE i \in 1..Len(s) : Test(s[i]) /\ \A j \in 1..(i - 1) : ~Test(s[j])]
    ELSE default

RECURSIVE InsertByCount(_, _)
InsertByCount(sorted, e) ==
    IF sorted = <<>> THEN <<e>>
    ELSE IF Head(sorted).count >= e.count
         THEN <<Head(sorted)>> \o InsertByCount(Tail(sorted), e)
         ELSE <<e>> \o sorted

\* sorted(domain_counts.items(), key=count, reverse=True)[:50]
TopDomains(responses) ==
    LET dc == DomainCounts(responses)
        f[i \in 0..Len(dc)] == IF i = 0 THEN <<>> ELSE InsertByCount(f[i - 1], dc[i])
    IN SubSeq(f[Len(dc)], 1, Min(50, Len(dc)))

\* One entry of top_cited_domains.
TopCitedEntry(responses, d, c) ==
    LET all_urls == DomainUrls(responses, d)
        article_urls == SortedUrls({u \in all_urls : HasArticlePath(u)})
        homepage_urls == SortedUrls({u \in all_urls : ~HasArticlePath(u)})
        chosen == IF article_urls # <<>> THEN article_urls ELSE homepage_urls
        urls == SubSeq(chosen, 1, Min(5, Len(chosen)))
        CheckText(u) == IF UrlTitle(responses, d, u) # "" THEN UrlTitle(responses, d, u) ELSE u
        by_url == FirstOr(urls, LAMBDA u : ClassifyUrl(u) # "other", "")
        by_text == FirstOr(urls, LAMBDA u : KeywordType(CheckText(u)) # "other", "")
        content_type ==
            IF by_url # "" THEN ClassifyUrl(by_url)
            ELSE IF by_text # "" THEN KeywordType(CheckText(by_text))
            ELSE "other"
        slug_url == FirstOr(urls, LAMBDA u : HasArticlePath(u) /\ TitleFromUrl(u) # "", "")
        anchor_url == FirstOr(urls, LAMBDA u : UrlTitle(responses, d, u) # "", "")
        title ==
            IF slug_url # "" THEN TitleFromUrl(slug_url)
            ELSE IF anchor_url # "" THEN UrlTitle(responses, d, anchor_url)
            ELSE ""
    IN [domain |-> d, count |-> c,
        providers |-> DomainProviders(responses, d),
        urls |-> urls, title |-> title, content_type |-> content_type,
        domain_type |-> ClassifyByRulesType(d)]

TopCitedDomains(responses) ==
    LET top == TopDomains(responses)
    IN [i \in 1..Len(top) |-> TopCitedEntry(responses, top[i].domain, top[i].count)]

\* aggregate(responses, brand_names, total_prompts)
Aggregate(responses, names, total_prompts) ==
    [total_prompts |-> total_prompts,
     total_responses |-> Len(responses),
     brands |-> AggregateBrands(responses, names),
     top_cited_domains |-> TopCitedDomains(responses)]


\* Most responses handed to aggregate.
MaxResponses == 2

Mention(name, position, score, recommended) ==
    [brand_name |-> name, position |-> position, sentiment_score |-> score,
     is_recommended |-> recommended]

Citation(url, domain, title) == [url |-> url, domain |-> domain, title |-> title]

\* The mentions of one response.
AggMentionLists ==
    {<<>>,
     <<Mention("Acme", 1, 80, TRUE)>>,
     <<Mention("Rival", 1, 0, FALSE), Mention("Acme", 2, -80, FALSE)>>,
     <<Mention("Third", 1, 80, FALSE), Mention("Acme Corp", 2, 0, FALSE)>>}

\* The citations of one response.
AggCitationLists ==
    {<<>>,
     <<Citation("https://elpais.com/mejores-bancos", "elpais.com", "")>>,
     <<Citation("https://elpais.com/economia/a1", "elpais.com", "Best banks"),
       Citation("https://elmundo.es/x/b2-nota", "elmundo.es", "")>>,
     <<Citation("https://elpais.com/economia/a1", "elpais.com", "El Pais"),
       Citation("https://elpais.com/", "elpais.com", "Opinion"),
       Citation("https://elmundo.es/x/b2-nota", "", "")>>}

AggResponses ==
    {[prompt_id |-> pp[1], provider |-> pp[2], mentions |-> ms, citations |-> cs] :
        pp \in {<<"p1", "openai">>, <<"p1", "perplexity">>, <<"p2", "openai">>},
        ms \in AggMentionLists, cs \in AggCitationLists}

ResponseLists == UNION {[1..n -> AggResponses] : n \in 0..MaxResponses}

\* [b.name for b in brands]
TrackedBrandLists == {<<"Acme", "Rival">>, <<"Rival", "Acme", "Third">>}

EmptyAggregate ==
    [total_prompts |-> 0, total_responses |-> 0, brands |-> <<>>,
     top_cited_domains |-> <<>>]

InitAgg ==
    /\ agg_responses \in ResponseLists
    /\ agg_brand_names \in TrackedBrandLists
    /\ agg_result = EmptyAggregate
    /\ agg_pc = "input"

IdleAgg ==
    /\ agg_responses = <<>>
    /\ agg_brand_names = <<>>
    /\ agg_result = EmptyAggregate
    /\ agg_pc = "idle"

(***************************************************************************)
(* Domain classifier and domain catalog.  classify_by_rules is the rules   *)
(* tier (known lists, then patterns), _classify_with_llm the LLM tier.     *)
(* The domains table has a unique domain column: a function from the       *)
(* domain to its row, NoRow where there is none.                           *)
(***************************************************************************)

\* RuleClassification(domain_type, accepts_sponsored, classified_by, is_excluded_fintech)
RuleClassification(t, s, by, fintech) ==
    [domain_type |-> t, accepts_sponsored |-> s, classified_by |-> by,
     is_excluded_fintech |-> fintech]

\* classify_by_rules(domain) on the domains of this model.
ClassifyByRules(domain) ==
    LET d == RemovePrefixWww(Lower(domain))
    IN CASE d = "elpais.com" -> RuleClassification("editorial", "True", "known_list", FALSE)
         [] d = "elmundo.es" -> RuleClassification("editorial", "True", "known_list", FALSE)
         [] d = "bbva.es" -> RuleClassification("competitor", "False", "known_list", TRUE)
         [] d = "blog.acme.io" -> RuleClassification("editorial", "True", "pattern", FALSE)
         [] OTHER -> RuleClassification(NoneStr, "None", "unclassified", FALSE)

\* What the LLM call of _classify_with_llm can do: the adapter cannot be
\* built (the exception leaves _classify_with_llm), the query raises
\* (caught: llm_error), or the query returns one of these texts.
AdapterError == "adapter_error"
QueryError == "query_error"
LlmTexts ==
    {"Type: Corporate\nSponsored: No",
     "type: bank\nsponsored: maybe",
     "I do not know this site."}
LlmOutcomes == LlmTexts \cup {AdapterError, QueryError}

\* The parse of resp.text.strip().lower() in _classify_with_llm.
ParseLlmText(t) ==
    CASE t = "Type: Corporate\nSponsored: No" ->
            RuleClassification("corporate", "False", "llm", FALSE)
      [] t = "type: bank\nsponsored: maybe" ->
            RuleClassification("other", "False", "llm", FALSE)
      [] OTHER -> RuleClassification("other", "None", "llm", FALSE)

Raised == [raised |-> TRUE]

\* _classify_with_llm(domain) when the LLM call does `outcome`.
ClassifyWithLlm(domain, outcome) ==
    IF outcome = AdapterError THEN Raised
    ELSE IF outcome = QueryError
    THEN [raised |-> FALSE, result |-> RuleClassification(NoneStr, "None", "llm_error", FALSE)]
    ELSE [raised |-> FALSE, result |-> ParseLlmText(outcome)]

\* classify_domain with the test of the rules result removed: the LLM is
\* asked whenever the caller opted in.
ClassifyDomainLlmFirst(domain, use_llm_fallback, outcome) ==
    LET result == ClassifyByRules(domain)
    IN IF ~use_llm_fallback
       THEN [raised |-> FALSE, result |-> result, llm_called |-> FALSE]
       ELSE IF ClassifyWithLlm(domain, outcome).raised
       THEN [raised |-> TRUE, llm_called |-> TRUE]
       ELSE [raised |-> FALSE, result |-> ClassifyWithLlm(domain, outcome).result,
             llm_called |-> TRUE]

\* classify_domain(domain, use_llm_fallback): the result (or the exception)
\* and whether the LLM was called.
ClassifyDomainFn(domain, use_llm_fallback, outcome) ==
    LET result == ClassifyByRules(domain)
    IN IF result.domain_type # NoneStr
       THEN [raised |-> FALSE, result |-> result, llm_called |-> FALSE]
       ELSE IF ~use_llm_fallback
       THEN [raised |-> FALSE, result |-> result, llm_called |-> FALSE]
       ELSE IF ClassifyWithLlm(domain, outcome).raised
       THEN [raised |-> TRUE, llm_called |-> TRUE]
       ELSE [raised |-> FALSE, result |-> ClassifyWithLlm(domain, outcome).result,
             llm_called |-> TRUE]

\* Inputs.
MaxBatch == 2
\* The domains of the classify requests, the domains of the requests that
\* reach the table, and the domains of the table.
ClassifyDomains == {"elpais.com", "www.ElPais.com", "unknown.io", "blog.acme.io", " "}
RequestDomains == {"elpais.com", "www.ElPais.com", "unknown.io", " "}
CatalogDomains == {"elpais.com", "unknown.io"}
\* The domains of the table that the rules engine does not classify.
LlmDomains == {d \in CatalogDomains : ClassifyByRules(d).domain_type = NoneStr}
NoRow == [domain_type |-> NoneStr, accepts_sponsored |-> "None", classified_by |-> "no_row"]
Row(t, s, by) == [domain_type |-> t, accepts_sponsored |-> s, classified_by |-> by]
\* The body of a create or update request (DomainCreate).
DomainCreates ==
    [domain_type : {NoneStr, "corporate"}, accepts_sponsored : {"None", "True"}]
NoRequest == [domains |-> {}, use_llm_fallback |-> FALSE]
Request(domains, use_llm_fallback) ==
    [domains |-> domains, use_llm_fallback |-> use_llm_fallback]
NoResponse == [op |-> "none", status |-> 0, items |-> {}, llm_calls |-> {}]
Response(op, status, items, llm_calls) ==
    [op |-> op, status |-> status, items |-> items, llm_calls |-> llm_calls]
\* str.strip() on the request domains: only " " strips to the empty string.
Strip(s) == IF s = " " THEN "" ELSE s

InitCatalog ==
    /\ catalog = [d \in CatalogDomains |-> NoRow]
    /\ cat_request = NoRequest
    /\ cat_response = NoResponse

IdleCatalog ==
    /\ catalog = [d \in CatalogDomains |-> NoRow]
    /\ cat_request = NoRequest
    /\ cat_response = NoResponse

(***************************************************************************)
(* Background tasks: _run_geo_analysis and _run_gap_analysis, started      *)
(* either by dispatch_inline (a thread) or as a Celery task.  geo_run is   *)
(* the GeoRun or GapAnalysis row, geo_job the BackgroundJob row.  The      *)
(* session holds flushed rows (geo_pending) until a commit stores them     *)
(* (geo_responses); an exception leaves the session and rolls them back.   *)
(* job.progress is a float: the pair <<numerator, denominator>>.           *)
(***************************************************************************)
MaxPrompts == 2
\* run.providers: the providers of the run.
RunProviderLists == {<<"openai">>, <<"openai", "perplexity">>}

Run(status, providers, total_prompts, completed_prompts) ==
    [status |-> status, providers |-> providers, total_prompts |-> total_prompts,
     completed_prompts |-> completed_prompts]

NoResult == [kind |-> NoneStr, total_prompts |-> NoneInt, total_responses |-> NoneInt]

\* A new BackgroundJob row: the column defaults.
NewJob ==
    [status |-> "pending", progress |-> <<0, 1>>, error |-> NoneStr, step |-> 0,
     result |-> NoResult]

\* What _run_llm_only can do for one (prompt, provider) pair: raise (one of
\* its LLM calls failed or timed out), or return turns 1 and 3, or, when
\* turn 1 mentioned a brand, turns 1, 2 and 3.
PairOutcomes == {"error", "turns_1_3", "turns_1_2_3"}
TurnsOf(outcome) ==
    CASE outcome = "turns_1_3" -> <<1, 3>>
      [] outcome = "turns_1_2_3" -> <<1, 2, 3>>
      [] OTHER -> <<>>

\* asyncio.gather(*tasks): without return_exceptions the first exception of
\* a task is raised in the caller.
GatherRaisesFirst(results) == \E i \in DOMAIN results : results[i] = "error"

\* asyncio.gather(*tasks, return_exceptions=True): exceptions are returned
\* in the list of results, never raised.
GatherRaises(results) == FALSE

\* The rows that the serial write loop stores for one prompt, in order:
\* for each provider result that is not an exception, one row per turn.
RECURSIVE TurnsToWrite(_, _, _)
TurnsToWrite(prompt, providers, results) ==
    IF providers = <<>> THEN <<>>
    ELSE LET turns == TurnsOf(Head(results))
             rows == [t \in 1..Len(turns) |->
                        [prompt |-> prompt, provider |-> Head(providers),
                         turn |-> turns[t]]]
         IN rows \o TurnsToWrite(prompt, Tail(providers), Tail(results))

\* A GeoResponse row of the session and what _write_turn_to_db has added
\* for it so far: "none" (the row is flushed), "mentions" (its BrandMention
\* rows are added), "complete" (its SourceCitation rows are added and
\* flushed).
GeoResponse(key, children) ==
    [prompt |-> key.prompt, provider |-> key.provider, turn |-> key.turn,
     children |-> children]

\* A session.flush() that committed: the mutant of Flush.
FlushCommits(committed, session) == committed \cup session

\* await session.flush(): the rows of the session are sent to the database
\* inside the open transaction; the committed rows do not change.
Flush(committed, session) == committed

\* await session.commit(): the rows of the session are committed.
Commit(committed, session) == committed \cup session

\* progress = completed / total if total else 1.0
Progress(completed, total) == IF total # 0 THEN <<completed, total>> ELSE <<1, 1>>

\* The progress values that _run_gap_analysis reports, in tenths.
GapProgress == <<3, 5, 6, 7, 8>>

\* prompt_count of create_geo_run: the active prompts counted when the run
\* was created, at least one; prompts is what the task finds later.
PromptCount(prompts) == IF prompts = 0 THEN 1 ELSE prompts

\* create_geo_run, create_gap_analysis: the run (or analysis) and the job
\* are added to the session of the request and flushed.
InitTask ==
    /\ geo_kind \in {"geo", "gap"}
    /\ geo_mode \in {"inline", "celery"}
    /\ geo_pc = "created"
    /\ geo_job = NewJob
    /\ geo_prompts \in 0..MaxPrompts
    /\ geo_kind = "gap" => geo_prompts = 0
    /\ \E providers \in RunProviderLists :
          geo_run = IF geo_kind = "geo"
                    THEN Run("pending", providers, PromptCount(geo_prompts), 0)
                    ELSE Run("pending", <<>>, 0, 0)
    /\ geo_idx = 0
    /\ geo_results = <<>>
    /\ geo_queue = <<>>
    /\ geo_pending = {}
    /\ geo_responses = {}
    /\ geo_failed = {}
    /\ geo_error = NoneStr

IdleTask ==
    /\ geo_kind = "geo"
    /\ geo_mode = "inline"
    /\ geo_pc = "idle"
    /\ geo_run = Run("pending", <<>>, 0, 0)
    /\ geo_job = NewJob
    /\ geo_prompts = 0
    /\ geo_idx = 0
    /\ geo_results = <<>>
    /\ geo_queue = <<>>
    /\ geo_pending = {}
    /\ geo_responses = {}
    /\ geo_failed = {}
    /\ geo_error = NoneStr

(***************************************************************************)
(* Rate limiter.  Two callers of acquire(provider) for the same provider.  *)
(* The second caller is a coroutine of the first caller's event loop, a    *)
(* thread of the same process (dispatch_inline) or another process (a      *)
(* Celery worker).  _mem_last is a module global: one per process.  The    *)
(* Redis key is shared by all.  Time is counted in ticks.                  *)
(***************************************************************************)
MaxClock == 3
\* The number of acquires of one caller.
MaxAcquires == 2
\* interval = 60.0 / rpm, in ticks
Interval == 2
Callers == {1, 2}
Backends == {"memory", "redis"}
Places == {"loop", "thread", "process"}

\* The store that a caller reads and writes: its process's _mem_last, or
\* the Redis key.
StoreOf(backend, place, c) ==
    IF backend = "memory" /\ place = "process" THEN c ELSE 1

\* The in-memory check and write run without an await: atomic for the
\* coroutines of one event loop, not for threads.  The Redis get and set
\* are awaited.
AtomicAcquire(backend, place) == backend = "memory" /\ place = "loop"

\* last is None or (now - last) >= interval
SlotFree(now, last) == last = NoneInt \/ (now - last) >= Interval

InitLimiter ==
    /\ rl_backend \in Backends
    /\ rl_place \in Places
    /\ rl_clock = 0
    /\ rl_last = [s \in Callers |-> NoneInt]
    /\ rl_pc = [c \in Callers |-> "idle"]
    /\ rl_now = [c \in Callers |-> 0]
    /\ rl_seen = [c \in Callers |-> NoneInt]
    /\ rl_wake = [c \in Callers |-> 0]
    /\ rl_grants = {}

IdleLimiter ==
    /\ rl_backend = "memory"
    /\ rl_place = "loop"
    /\ rl_clock = 0
    /\ rl_last = [s \in Callers |-> NoneInt]
    /\ rl_pc = [c \in Callers |-> "done"]
    /\ rl_now = [c \in Callers |-> 0]
    /\ rl_seen = [c \in Callers |-> NoneInt]
    /\ rl_wake = [c \in Callers |-> 0]
    /\ rl_grants = {}

(***************************************************************************)
(* SERP ingestion (_run_serp_query) and the external calls.  An external   *)
(* call is an event [op, provider]: acquire (rate_limiter.acquire), query  *)
(* (adapter.query) or search (provider.search).  serp_calls holds the      *)
(* events of the last step, in program order.  Confidences are in tenths.  *)
(***************************************************************************)
MaxSerpItems == 2

Event(op, provider) == [op |-> op, provider |-> provider]

ClassificationResult(content_type, confidence, classified_by) ==
    [content_type |-> content_type, confidence |-> confidence,
     classified_by |-> classified_by]

\* The title keywords of content_classifier.classify on the titles of this
\* model.
TitleType(title) == IF title = "Best banks" THEN "ranking" ELSE "other"

\* content_classifier.classify(url, title): URL patterns, then title
\* keywords.
Classify(url, title) ==
    IF ClassifyUrl(url) # "other"
    THEN ClassificationResult(ClassifyUrl(url), 9, "url_pattern")
    ELSE IF TitleType(title) # "other"
    THEN ClassificationResult(TitleType(title), 8, "title_keyword")
    ELSE ClassificationResult("other", 0, "unclassified")

\* What the LLM call of content_classifier.classify_with_llm can do.
ContentLlmTexts == {"review", " Review\n", "This looks like a review.", ""}
ContentLlmOutcomes == ContentLlmTexts \cup {AdapterError, QueryError}

\* resp.text.strip().lower() on the texts of this model.
StripLower(t) == IF t = " Review\n" THEN "review" ELSE t

\* content_classifier.classify_with_llm: get_adapter is outside the try, and
\* the try has a finally and no except.
ContentClassifyWithLlm(outcome) ==
    IF outcome \in {AdapterError, QueryError}
    THEN [raised |-> TRUE, result |-> ClassificationResult(NoneStr, 0, NoneStr)]
    ELSE IF StripLower(outcome) \in {"review", "ranking", "solution", "news", "forum", "other"}
    THEN [raised |-> FALSE, result |-> ClassificationResult(StripLower(outcome), 7, "llm")]
    ELSE [raised |-> FALSE, result |-> ClassificationResult("other", 3, "llm")]

\* The external calls of classify_with_llm and of _classify_with_llm: the
\* query, unless the adapter could not be built.
LlmCalls(outcome) ==
    IF outcome = AdapterError THEN <<>> ELSE <<Event("query", "openai")>>

\* The external calls of geo_tasks._query_single(provider_name, prompt).
QuerySingleCalls(provider) == <<Event("acquire", provider), Event("query", provider)>>

\* The external calls of the fetch of _run_serp_query when the cache misses.
SearchCalls == <<Event("acquire", "serp"), Event("search", "serp")>>

\* The classification stored for one item of _run_serp_query.
ItemClassification(item, outcome) ==
    LET classification == Classify(item.url, item.title)
    IN IF classification.content_type = "other" /\ item.snippet # ""
       THEN IF ContentClassifyWithLlm(outcome).raised
            THEN classification
            ELSE ContentClassifyWithLlm(outcome).result
       ELSE classification

\* Whether the item is sent to the LLM.
NeedsLlm(item) ==
    Classify(item.url, item.title).content_type = "other" /\ item.snippet # ""

SerpItem(url, title, snippet) == [url |-> url, title |-> title, snippet |-> snippet]
SerpItems ==
    {SerpItem("https://elpais.com/ranking/bancos", "El Pais", "Bank news"),
     SerpItem("https://elpais.com/economia/a1", "Best banks", "Bank news"),
     SerpItem("https://elpais.com/economia/a1", "El Pais", "Bank news"),
     SerpItem("https://elpais.com/economia/a1", "El Pais", "")}
SerpItemLists == UNION {[1..n -> SerpItems] : n \in 0..MaxSerpItems}

NoLlm == [site |-> "none", outcome |-> "", raised |-> FALSE, type |-> NoneStr]
LlmCall(site, outcome, raised, type) ==
    [site |-> site, outcome |-> outcome, raised |-> raised, type |-> type]

InitSerp ==
    /\ serp_mode \in {"inline", "celery"}
    /\ serp_pc = "dispatched"
    /\ serp_items = <<>>
    /\ serp_rows = <<>>
    /\ serp_committed = <<>>
    /\ serp_job = NewJob
    /\ serp_calls = <<>>
    /\ serp_llm = NoLlm

IdleSerp ==
    /\ serp_mode = "inline"
    /\ serp_pc = "idle"
    /\ serp_items = <<>>
    /\ serp_rows = <<>>
    /\ serp_committed = <<>>
    /\ serp_job = NewJob
    /\ serp_calls = <<>>
    /\ serp_llm = NoLlm


(***************************************************************************)
(* dispatch_inline.  Each dispatched task runs _target in a thread of its  *)
(* own.  app.database.async_session is a module global: the threads and    *)
(* the request handlers of the main thread read and write the same name.   *)
(* A factory is MainFactory (the one built at import) or the number of    *)
(* the worker that built it with create_worker_session().                  *)
(***************************************************************************)
MaxWorkers == 2
Workers == 1..MaxWorkers

\* async_session = async_sessionmaker(engine, ...), built at import.
MainFactory == 0
\* The thread of the request handlers.
MainThread == 0

\* A use of a session factory: who opened a session, and with which one.
Use(who, factory) == [who |-> who, factory |-> factory]

\* A _target that does not patch the global: the mutant of Patched.
NotPatched(global, worker_session) == global

\* db_module.async_session = worker_session
Patched(global, worker_session) == worker_session

InitInline ==
    /\ async_session = MainFactory
    /\ original_session = [w \in Workers |-> NoneInt]
    /\ inline_pc = [w \in Workers |-> "idle"]
    /\ session_uses = {}

IdleInline ==
    /\ async_session = MainFactory
    /\ original_session = [w \in Workers |-> NoneInt]
    /\ inline_pc = [w \in Workers |-> "unused"]
    /\ session_uses = {}

----
InitKo ==
    /\ domain_intel \in ScorerInputs
    /\ opportunities = <<>>
    /\ ko_pc = "input"

IdleKo ==
    /\ domain_intel = <<>>
    /\ opportunities = <<>>
    /\ ko_pc = "idle"

InitGap ==
    /\ geo_citations = <<>>
    /\ serp_results = <<>>
    /\ client_domains \in ClientDomainChoices
    /\ excluded_domains \in ExcludedChoices
    /\ gap_result = EmptyGapResult
    /\ gap_pc = "collect"

IdleGap ==
    /\ geo_citations = <<>>
    /\ serp_results = <<>>
    /\ client_domains = <<>>
    /\ excluded_domains = {}
    /\ gap_result = EmptyGapResult
    /\ gap_pc = "idle"

InitScore ==
    /\ score_data \in ScoreInputs
    /\ score_out = NoneInt

IdleScore ==
    /\ score_data = [competitors |-> {}, found_in_geo |-> FALSE, found_in_serp |-> FALSE,
                     content_type |-> NoneStr, domain_type |-> NoneStr]
    /\ score_out = 0

InitIntel ==
    /\ db \in Datasets
    /\ intel = <<>>
    /\ previous_run = NoRun

IdleIntel ==
    /\ db = EmptyDb
    /\ intel = <<>>
    /\ previous_run = NoRun

\* The scorer waiting for the records collect_domain_intelligence returns.
InitKoCollect ==
    /\ domain_intel = <<>>
    /\ opportunities = <<>>
    /\ ko_pc = "gap_items"

\* 1. Gap items of the latest completed gap analysis.
CollectGapItems ==
    /\ ko_pc = "gap_items"
    /\ \E rows \in Orders(db.gap_items) : intel' = GapItemsLoop(<<>>, rows)
    /\ ko_pc' = "citations"
    /\ UNCHANGED <<domain_intel, opportunities, db, previous_run, gapVars, scoreVars, parseVars, aggVars, catVars, taskVars, rlVars, serpVars, inlineVars>>

\* 2. Source citations of the latest geo run.  The brand mentions read
\* after them only fill a local that nothing reads.
CollectCitations ==
    /\ ko_pc = "citations"
    /\ \E rows \in Orders(db.citations) : intel' = CitationsLoop(intel, rows, db.brands)
    /\ ko_pc' = "serp_results"
    /\ UNCHANGED <<domain_intel, opportunities, db, previous_run, gapVars, scoreVars, parseVars, aggVars, catVars, taskVars, rlVars, serpVars, inlineVars>>

\* 3. SERP results of the project's queries, then their classifications.
CollectSerpResults ==
    /\ ko_pc = "serp_results"
    /\ IF db.serp_queries # {}
       THEN \E rows \in Orders(db.serp_results), ccs \in Orders(db.classifications) :
                intel' = ClassificationsLoop(
                             SerpResultsLoop(intel, rows, db.serp_queries),
                             ccs, db.serp_results)
       ELSE intel' = intel
    /\ ko_pc' = "catalog"
    /\ UNCHANGED <<domain_intel, opportunities, db, previous_run, gapVars, scoreVars, parseVars, aggVars, catVars, taskVars, rlVars, serpVars, inlineVars>>

\* 4. Domain catalog rows of the collected domains.
CollectCatalog ==
    /\ ko_pc = "catalog"
    /\ \E rows \in Orders({r \in db.catalog : r.domain \in IntelKeys(intel)}) :
            intel' = CatalogLoop(intel, rows)
    /\ ko_pc' = "finish"
    /\ UNCHANGED <<domain_intel, opportunities, db, previous_run, gapVars, scoreVars, parseVars, aggVars, catVars, taskVars, rlVars, serpVars, inlineVars>>

\* 5, 6. Mark client domains, deduplicate URLs, return list(intel.values()).
FinishCollect ==
    /\ ko_pc = "finish"
    /\ intel' = DedupAll(MarkClientDomains(intel, ClientDomainsOf(db.brands)))
    /\ domain_intel' = intel'
    /\ ko_pc' = "input"
    /\ UNCHANGED <<opportunities, db, previous_run, gapVars, scoreVars, parseVars, aggVars, catVars, taskVars, rlVars, serpVars, inlineVars>>

\* The endpoint is called again on the same stored data.
Rerun ==
    /\ ko_pc = "scored"
    /\ previous_run' = [completed |-> TRUE, opportunities |-> opportunities]
    /\ intel' = <<>>
    /\ domain_intel' = <<>>
    /\ opportunities' = <<>>
    /\ ko_pc' = "gap_items"
    /\ UNCHANGED <<db, gapVars, scoreVars, parseVars, aggVars, catVars, taskVars, rlVars, serpVars, inlineVars>>

\* opportunities = score_key_opportunities(domain_intel)
ScoreAll ==
    /\ ko_pc = "input"
    /\ opportunities' = ScoreKeyOpportunities(domain_intel)
    /\ ko_pc' = "scored"
    /\ UNCHANGED <<domain_intel, gapVars, scoreVars, intelVars, parseVars, aggVars, catVars, taskVars, rlVars, serpVars, inlineVars>>

\* geo_citations.append({...}) for one SourceCitation row.
CollectGeoCitation ==
    /\ gap_pc = "collect"
    /\ Len(geo_citations) + Len(serp_results) < MaxItems
    \* the task reads the citations before the SERP rows
    /\ serp_results = <<>>
    /\ \E c \in GeoEntries : geo_citations' = Append(geo_citations, c)
    /\ UNCHANGED <<serp_results, client_domains, excluded_domains, gap_result, gap_pc,
                   koVars, scoreVars, intelVars, parseVars, aggVars, catVars, taskVars, rlVars, serpVars, inlineVars>>

\* serp_data.append({...}) for one SerpResult row.
CollectSerpResult ==
    /\ gap_pc = "collect"
    /\ Len(geo_citations) + Len(serp_results) < MaxItems
    /\ \E r \in SerpEntries : serp_results' = Append(serp_results, r)
    /\ UNCHANGED <<geo_citations, client_domains, excluded_domains, gap_result, gap_pc,
                   koVars, scoreVars, intelVars, parseVars, aggVars, catVars, taskVars, rlVars, serpVars, inlineVars>>

\* gap_result = analyze_gaps(...)
RunAnalyzeGaps ==
    /\ gap_pc = "collect"
    /\ gap_result' = AnalyzeGaps(geo_citations, serp_results, client_domains,
                                 excluded_domains)
    /\ gap_pc' = "done"
    /\ UNCHANGED <<geo_citations, serp_results, client_domains, excluded_domains,
                   koVars, scoreVars, intelVars, parseVars, aggVars, catVars, taskVars, rlVars, serpVars, inlineVars>>

\* score = _score_opportunity(data)
RunScoreOpportunity ==
    /\ score_out = NoneInt
    /\ score_out' = ScoreOpportunity(score_data)
    /\ UNCHANGED <<score_data, koVars, gapVars, intelVars, parseVars, aggVars, catVars, taskVars, rlVars, serpVars, inlineVars>>

Init == InitKo /\ IdleGap /\ IdleScore /\ IdleIntel /\ IdleParse /\ IdleAgg /\ IdleCatalog /\ IdleTask /\ IdleLimiter /\ IdleSerp /\ IdleInline

Next == ScoreAll

Spec == Init /\ [][Next]_vars

InitGapSpec == IdleKo /\ InitGap /\ IdleScore /\ IdleIntel /\ IdleParse /\ IdleAgg /\ IdleCatalog /\ IdleTask /\ IdleLimiter /\ IdleSerp /\ IdleInline

NextGap == CollectGeoCitation \/ CollectSerpResult \/ RunAnalyzeGaps

SpecGap == InitGapSpec /\ [][NextGap]_vars

InitScoreSpec == IdleKo /\ IdleGap /\ InitScore /\ IdleIntel /\ IdleParse /\ IdleAgg /\ IdleCatalog /\ IdleTask /\ IdleLimiter /\ IdleSerp /\ IdleInline

NextScore == RunScoreOpportunity

SpecGapScore == InitScoreSpec /\ [][NextScore]_vars

InitIntelSpec == InitKoCollect /\ IdleGap /\ IdleScore /\ InitIntel /\ IdleParse /\ IdleAgg /\ IdleCatalog /\ IdleTask /\ IdleLimiter /\ IdleSerp /\ IdleInline

NextIntel ==
    \/ CollectGapItems
    \/ CollectCitations
    \/ CollectSerpResults
    \/ CollectCatalog
    \/ FinishCollect
    \/ ScoreAll
    \/ Rerun

SpecIntel == InitIntelSpec /\ [][NextIntel]_vars


\* parsed = parse_response(text, brand_names, native_citations=...)
RunParseResponse ==
    /\ parse_pc = "input"
    /\ parsed' = ParseResponse(text, brand_names, native_citations)
    /\ parse_pc' = "parsed"
    /\ UNCHANGED <<text, brand_names, native_citations,
                   koVars, gapVars, scoreVars, intelVars, aggVars, catVars, taskVars, rlVars, serpVars, inlineVars>>

InitParseSpec == IdleKo /\ IdleGap /\ IdleScore /\ IdleIntel /\ InitParse /\ IdleAgg /\ IdleCatalog /\ IdleTask /\ IdleLimiter /\ IdleSerp /\ IdleInline

NextParse == RunParseResponse

SpecParse == InitParseSpec /\ [][NextParse]_vars


\* agg_result = aggregate(responses, brand_names, total_prompts)
RunAggregate ==
    /\ agg_pc = "input"
    /\ agg_result' = Aggregate(agg_responses, agg_brand_names, 2)
    /\ agg_pc' = "aggregated"
    /\ UNCHANGED <<agg_responses, agg_brand_names,
                   koVars, gapVars, scoreVars, intelVars, parseVars, catVars, taskVars, rlVars, serpVars, inlineVars>>

InitAggSpec == IdleKo /\ IdleGap /\ IdleScore /\ IdleIntel /\ IdleParse /\ InitAgg /\ IdleCatalog /\ IdleTask /\ IdleLimiter /\ IdleSerp /\ IdleInline

NextAgg == RunAggregate

SpecAgg == InitAggSpec /\ [][NextAgg]_vars


(***************************************************************************)
(* The requests of api/v1/domains.py and the enrichment of the cited       *)
(* domains in get_run_metrics.  Each request is one action.                *)
(***************************************************************************)
OtherThanCatalog ==
    <<koVars, gapVars, scoreVars, intelVars, parseVars, aggVars, taskVars, rlVars, serpVars, inlineVars>>

\* d.lower().removeprefix("www.")
NormDomain(d) == RemovePrefixWww(Lower(d))

Item(domain, c) ==
    [domain |-> domain, domain_type |-> c.domain_type,
     accepts_sponsored |-> c.accepts_sponsored, classified_by |-> c.classified_by]

\* POST /domains: create_domain.
CreateDomain ==
    \E domain \in RequestDomains \ {" "}, data \in DomainCreates :
        LET d == NormDomain(domain)
            row == Row(data.domain_type, data.accepts_sponsored, "manual")
        IN /\ cat_request' = Request({domain}, FALSE)
           /\ IF catalog[d] # NoRow
              THEN /\ cat_response' = Response("create", 409, {}, {})
                   /\ UNCHANGED catalog
              ELSE /\ catalog' = [catalog EXCEPT ![d] = row]
                   /\ cat_response' = Response("create", 201, {Item(d, row)}, {})
           /\ UNCHANGED OtherThanCatalog

\* POST /domains/classify: classify_domain of the API, which calls
\* classify_domain of the classifier and does not read the table.
ClassifyDomain ==
    \E domain \in ClassifyDomains, use_llm_fallback \in BOOLEAN, outcome \in LlmOutcomes :
        LET r == ClassifyDomainFn(domain, use_llm_fallback, outcome)
        IN /\ cat_request' = Request({domain}, use_llm_fallback)
           /\ cat_response' =
                IF r.raised
                THEN Response("classify", 500, {}, {domain})
                ELSE Response("classify", 200, {Item(domain, r.result)},
                              IF r.llm_called THEN {domain} ELSE {})
           /\ UNCHANGED <<catalog, OtherThanCatalog>>

\* The item and the new row (NoRow: none) of one uncached domain of
\* batch_classify_domains.
BatchUncached(d, use_llm_fallback, outcome) ==
    LET rule_result == ClassifyByRules(d)
        llm_result == ClassifyDomainFn(d, TRUE, outcome)
    IN IF rule_result.domain_type # NoneStr
       THEN [item |-> Item(d, rule_result),
             row |-> Row(rule_result.domain_type, rule_result.accepts_sponsored,
                         rule_result.classified_by),
             llm_called |-> FALSE]
       ELSE IF use_llm_fallback
       THEN IF llm_result.raised
            THEN [item |-> Item(d, Row(NoneStr, "None", "error")), row |-> NoRow,
                  llm_called |-> TRUE]
            ELSE [item |-> Item(d, llm_result.result),
                  row |-> Row(llm_result.result.domain_type,
                              llm_result.result.accepts_sponsored,
                              llm_result.result.classified_by),
                  llm_called |-> llm_result.llm_called]
       ELSE [item |-> Item(d, Row(NoneStr, "None", "unclassified")), row |-> NoRow,
             llm_called |-> FALSE]

\* POST /domains/batch-classify: batch_classify_domains.
BatchClassifyDomains ==
    \E domains \in SUBSET RequestDomains, use_llm_fallback \in BOOLEAN,
       outcomes \in [LlmDomains -> LlmOutcomes] :
        LET normalized == {NormDomain(d) : d \in {x \in domains : Strip(x) # ""}}
            cached == {d \in normalized : catalog[d] # NoRow}
            uncached == normalized \ cached
            New(d) == BatchUncached(d, use_llm_fallback,
                                    IF d \in LlmDomains THEN outcomes[d] ELSE QueryError)
        IN /\ Cardinality(domains) <= MaxBatch
           /\ cat_request' = Request(domains, use_llm_fallback)
           /\ catalog' = [d \in CatalogDomains |->
                            IF d \in uncached THEN New(d).row ELSE catalog[d]]
           /\ cat_response' =
                Response("batch_classify", 200,
                         {Item(d, catalog[d]) : d \in cached}
                             \cup {New(d).item : d \in uncached},
                         {d \in uncached : New(d).llm_called})
           /\ UNCHANGED OtherThanCatalog

\* PATCH /domains/{domain_id}: update_domain.
UpdateDomain ==
    \E d \in CatalogDomains, data \in DomainCreates :
        LET row == Row(IF data.domain_type # NoneStr
                       THEN data.domain_type ELSE catalog[d].domain_type,
                       IF data.accepts_sponsored # "None"
                       THEN data.accepts_sponsored ELSE catalog[d].accepts_sponsored,
                       "manual")
        IN /\ cat_request' = Request({d}, FALSE)
           /\ IF catalog[d] = NoRow
              THEN /\ cat_response' = Response("update", 404, {}, {})
                   /\ UNCHANGED catalog
              ELSE /\ catalog' = [catalog EXCEPT ![d] = row]
                   /\ cat_response' = Response("update", 200, {Item(d, row)}, {})
           /\ UNCHANGED OtherThanCatalog

\* One entry of top_cited_domains after the enrichment of get_run_metrics:
\* the rules classification of aggregate, replaced by the row's where the
\* row has a domain type.
EnrichedEntry(d) ==
    LET dom_class == ClassifyByRules(d)
        use_row == catalog[d] # NoRow /\ StrTruthy(catalog[d].domain_type)
    IN [domain |-> d,
        domain_type |-> IF use_row THEN catalog[d].domain_type
                        ELSE dom_class.domain_type,
        accepts_sponsored |-> IF use_row THEN catalog[d].accepts_sponsored
                              ELSE dom_class.accepts_sponsored,
        classified_by |-> NoneStr]

\* GET /geo/runs/{run_id}/metrics: the classification of the cited domains.
GetRunMetrics ==
    \E cited \in SUBSET CatalogDomains :
        /\ cat_request' = Request(cited, FALSE)
        /\ cat_response' = Response("run_metrics", 200, {EnrichedEntry(d) : d \in cited}, {})
        /\ UNCHANGED <<catalog, OtherThanCatalog>>

InitCatalogSpec ==
    /\ IdleKo /\ IdleGap /\ IdleScore /\ IdleIntel /\ IdleParse /\ IdleAgg
    /\ InitCatalog /\ IdleTask /\ IdleLimiter /\ IdleSerp /\ IdleInline

NextCatalog ==
    \/ CreateDomain
    \/ ClassifyDomain
    \/ BatchClassifyDomains
    \/ UpdateDomain
    \/ GetRunMetrics

SpecCatalog == InitCatalogSpec /\ [][NextCatalog]_vars


(***************************************************************************)
(* The steps of a background task.  Each action is the code between two    *)
(* awaits that touch the database.                                         *)
(***************************************************************************)
OtherThanTask ==
    <<koVars, gapVars, scoreVars, intelVars, parseVars, aggVars, catVars, rlVars, serpVars, inlineVars>>

TaskInputs == <<geo_kind, geo_mode, geo_prompts>>

\* The Celery path of the endpoints: run_geo_analysis.delay(...) or
\* run_gap_analysis.delay(...) sends the task to the broker before the
\* request commits its rows.
CeleryDelay ==
    /\ geo_mode = "celery" /\ geo_pc = "created"
    /\ geo_pc' = "queued"
    /\ UNCHANGED <<TaskInputs, geo_run, geo_job, geo_idx, geo_results, geo_queue,
                   geo_pending, geo_responses, geo_failed, geo_error, OtherThanTask>>

\* await db.commit() of the endpoint: before dispatch_inline on the inline
\* path, after delay(...) on the Celery path (here before a worker has
\* taken the task).
ApiCommit ==
    /\ \/ geo_mode = "inline" /\ geo_pc = "created"
       \/ geo_mode = "celery" /\ geo_pc = "queued"
    /\ geo_pc' = "dispatched"
    /\ UNCHANGED <<TaskInputs, geo_run, geo_job, geo_idx, geo_results, geo_queue,
                   geo_pending, geo_responses, geo_failed, geo_error, OtherThanTask>>

\* A Celery worker takes the task before the endpoint has committed: the
\* select finds no row and the task returns {"error": ...}.  The endpoint
\* then commits the rows as they are.
TaskNotFound ==
    /\ geo_mode = "celery" /\ geo_pc = "queued"
    /\ geo_pc' = "not_found"
    /\ UNCHANGED <<TaskInputs, geo_run, geo_job, geo_idx, geo_results, geo_queue,
                   geo_pending, geo_responses, geo_failed, geo_error, OtherThanTask>>

\* run.status = "running"; commit
StartRun ==
    /\ geo_kind = "geo" /\ geo_pc = "dispatched"
    /\ geo_run' = [geo_run EXCEPT !.status = "running"]
    /\ geo_pc' = "run_running"
    /\ UNCHANGED <<TaskInputs, geo_job, geo_idx, geo_results, geo_queue, geo_pending,
                   geo_responses, geo_failed, geo_error, OtherThanTask>>

\* _update_job(session, job_id, status="running")
JobRunning ==
    /\ geo_pc = "run_running"
    /\ geo_job' = [geo_job EXCEPT !.status = "running"]
    /\ geo_pc' = "job_running"
    /\ UNCHANGED <<TaskInputs, geo_run, geo_idx, geo_results, geo_queue, geo_pending,
                   geo_responses, geo_failed, geo_error, OtherThanTask>>

\* run.total_prompts = len(prompts); commit; the brands and the language.
LoadPrompts ==
    /\ geo_pc = "job_running"
    /\ geo_run' = [geo_run EXCEPT !.total_prompts = geo_prompts]
    /\ geo_idx' = 0
    /\ geo_pc' = "prompt"
    /\ UNCHANGED <<TaskInputs, geo_job, geo_results, geo_queue, geo_pending,
                   geo_responses, geo_failed, geo_error, OtherThanTask>>

\* The head of the loop over the prompts: the step info of the job;
\* _update_job commits the session.
StepInfo ==
    /\ geo_pc = "prompt" /\ geo_idx < geo_prompts
    /\ geo_job' = [geo_job EXCEPT !.step = geo_idx + 1]
    /\ geo_responses' = Commit(geo_responses, geo_pending)
    /\ geo_pending' = {}
    /\ geo_pc' = "query"
    /\ UNCHANGED <<TaskInputs, geo_run, geo_idx, geo_results, geo_queue, geo_failed,
                   geo_error, OtherThanTask>>

\* provider_results = await asyncio.gather(*tasks, return_exceptions=True)
QueryProviders ==
    /\ geo_pc = "query"
    /\ \E results \in [1..Len(geo_run.providers) -> PairOutcomes] :
          IF GatherRaises(results)
          THEN /\ geo_pc' = "raised"
               /\ geo_error' = "llm error"
               /\ UNCHANGED <<geo_results, geo_queue, geo_failed>>
          ELSE /\ geo_results' = results
               /\ geo_queue' = TurnsToWrite(geo_idx + 1, geo_run.providers, results)
               /\ geo_failed' = geo_failed \cup
                     {<<geo_idx + 1, geo_run.providers[i]>> :
                          i \in {j \in DOMAIN results : results[j] = "error"}}
               /\ geo_pc' = "write"
               /\ UNCHANGED geo_error
    /\ UNCHANGED <<TaskInputs, geo_run, geo_job, geo_idx, geo_pending, geo_responses,
                   OtherThanTask>>

\* _write_turn_to_db for the next turn of the serial write loop, up to its
\* first await: session.add(geo_response); await session.flush()
WriteTurn ==
    /\ geo_pc = "write" /\ geo_queue # <<>>
    /\ \A r \in geo_pending : r.children = "complete"
    /\ geo_pending' = geo_pending \cup {GeoResponse(Head(geo_queue), "none")}
    /\ geo_responses' = Flush(geo_responses, geo_pending')
    /\ UNCHANGED <<TaskInputs, geo_pc, geo_run, geo_job, geo_idx, geo_results,
                   geo_queue, geo_failed, geo_error, OtherThanTask>>

\* _write_turn_to_db: for m in parsed_obj.mentions: _find_brand_id and
\* session.add(mention)
WriteMentions ==
    /\ geo_pc = "write" /\ geo_queue # <<>>
    /\ GeoResponse(Head(geo_queue), "none") \in geo_pending
    /\ geo_pending' = (geo_pending \ {GeoResponse(Head(geo_queue), "none")})
                          \cup {GeoResponse(Head(geo_queue), "mentions")}
    /\ UNCHANGED <<TaskInputs, geo_pc, geo_run, geo_job, geo_idx, geo_results,
                   geo_queue, geo_responses, geo_failed, geo_error, OtherThanTask>>

\* _write_turn_to_db: for c in parsed_obj.citations:
\* _match_citation_to_brand and session.add(citation); await
\* session.flush(); the turn is written.
WriteCitations ==
    /\ geo_pc = "write" /\ geo_queue # <<>>
    /\ GeoResponse(Head(geo_queue), "mentions") \in geo_pending
    /\ geo_pending' = (geo_pending \ {GeoResponse(Head(geo_queue), "mentions")})
                          \cup {GeoResponse(Head(geo_queue), "complete")}
    /\ geo_responses' = Flush(geo_responses, geo_pending')
    /\ geo_queue' = Tail(geo_queue)
    /\ UNCHANGED <<TaskInputs, geo_pc, geo_run, geo_job, geo_idx, geo_results,
                   geo_failed, geo_error, OtherThanTask>>

\* completed += len(providers); run.completed_prompts = completed;
\* _update_job(progress); commit
UpdateProgress ==
    /\ geo_pc = "write" /\ geo_queue = <<>>
    /\ LET completed == (geo_idx + 1) * Len(geo_run.providers)
           total == geo_prompts * Len(geo_run.providers)
       IN /\ geo_run' = [geo_run EXCEPT !.completed_prompts = completed]
          /\ geo_job' = [geo_job EXCEPT !.progress = Progress(completed, total)]
    /\ geo_responses' = Commit(geo_responses, geo_pending)
    /\ geo_pending' = {}
    /\ geo_idx' = geo_idx + 1
    /\ geo_pc' = "prompt"
    /\ UNCHANGED <<TaskInputs, geo_results, geo_queue, geo_failed, geo_error,
                   OtherThanTask>>

\* run.status = "completed"; commit
MarkComplete ==
    /\ geo_pc = "prompt" /\ geo_idx = geo_prompts
    /\ geo_run' = [geo_run EXCEPT !.status = "completed"]
    /\ geo_pc' = "run_completed"
    /\ UNCHANGED <<TaskInputs, geo_job, geo_idx, geo_results, geo_queue, geo_pending,
                   geo_responses, geo_failed, geo_error, OtherThanTask>>

\* aggregate(all_parsed, ...); _update_job(status="completed", progress=1.0,
\* result=result_data); the task returns.
JobCompleted ==
    /\ geo_pc = "run_completed"
    /\ geo_job' = [geo_job EXCEPT
                      !.status = "completed", !.progress = <<1, 1>>,
                      !.result = [kind |-> "geo", total_prompts |-> geo_prompts,
                                  total_responses |-> Cardinality(geo_responses)]]
    /\ geo_pc' = "returned"
    /\ UNCHANGED <<TaskInputs, geo_run, geo_idx, geo_results, geo_queue, geo_pending,
                   geo_responses, geo_failed, geo_error, OtherThanTask>>

\* _run_gap_analysis: analysis.status = "running"; commit
GapStart ==
    /\ geo_kind = "gap" /\ geo_pc = "dispatched"
    /\ geo_run' = [geo_run EXCEPT !.status = "running"]
    /\ geo_pc' = "gap_running"
    /\ UNCHANGED <<TaskInputs, geo_job, geo_idx, geo_results, geo_queue, geo_pending,
                   geo_responses, geo_failed, geo_error, OtherThanTask>>

\* _run_gap_analysis: _update_job(session, job_id, status="running")
GapJobRunning ==
    /\ geo_pc = "gap_running"
    /\ geo_job' = [geo_job EXCEPT !.status = "running"]
    /\ geo_pc' = "gap_steps"
    /\ UNCHANGED <<TaskInputs, geo_run, geo_idx, geo_results, geo_queue, geo_pending,
                   geo_responses, geo_failed, geo_error, OtherThanTask>>

\* _run_gap_analysis: the next stage and its _update_job(progress=...).
GapStep ==
    /\ geo_pc = "gap_steps" /\ geo_idx < Len(GapProgress)
    /\ geo_job' = [geo_job EXCEPT !.progress = <<GapProgress[geo_idx + 1], 10>>]
    /\ geo_idx' = geo_idx + 1
    /\ UNCHANGED <<TaskInputs, geo_pc, geo_run, geo_results, geo_queue, geo_pending,
                   geo_responses, geo_failed, geo_error, OtherThanTask>>

\* _run_gap_analysis: the gap items and briefs; analysis.status =
\* "completed"; commit
GapComplete ==
    /\ geo_pc = "gap_steps" /\ geo_idx = Len(GapProgress)
    /\ geo_run' = [geo_run EXCEPT !.status = "completed"]
    /\ geo_pc' = "gap_completed"
    /\ UNCHANGED <<TaskInputs, geo_job, geo_idx, geo_results, geo_queue, geo_pending,
                   geo_responses, geo_failed, geo_error, OtherThanTask>>

\* _run_gap_analysis: _update_job(status="completed", progress=1.0,
\* result=analysis.results); the task returns.
GapJobCompleted ==
    /\ geo_pc = "gap_completed"
    /\ geo_job' = [geo_job EXCEPT
                      !.status = "completed", !.progress = <<1, 1>>,
                      !.result = [kind |-> "gap", total_prompts |-> NoneInt,
                                  total_responses |-> NoneInt]]
    /\ geo_pc' = "returned"
    /\ UNCHANGED <<TaskInputs, geo_run, geo_idx, geo_results, geo_queue, geo_pending,
                   geo_responses, geo_failed, geo_error, OtherThanTask>>

\* The positions at which a statement of the task can raise: every position
\* but the gather of the LLM calls, which returns the exceptions.
RaisePoints ==
    {"dispatched", "run_running", "job_running", "prompt", "write", "run_completed",
     "gap_running", "gap_steps", "gap_completed"}

\* A statement of the task raises (a database error, an error of a SERP or
\* content call of the gap analysis).  The exception leaves the
\* `async with` of the session: what was not committed is rolled back.
TaskRaises ==
    /\ geo_pc \in RaisePoints
    /\ geo_error' = "error"
    /\ geo_pending' = {}
    /\ geo_pc' = "raised"
    /\ UNCHANGED <<TaskInputs, geo_run, geo_job, geo_idx, geo_results, geo_queue,
                   geo_responses, geo_failed, OtherThanTask>>

\* dispatch_inline: except Exception -> _mark_job_failed(job_id, str(e))
MarkJobFailed ==
    /\ geo_pc = "raised" /\ geo_mode = "inline"
    /\ geo_job' = [geo_job EXCEPT !.status = "failed", !.error = geo_error]
    /\ geo_pc' = "aborted"
    /\ UNCHANGED <<TaskInputs, geo_run, geo_idx, geo_results, geo_queue, geo_pending,
                   geo_responses, geo_failed, geo_error, OtherThanTask>>

\* dispatch_inline: _mark_job_failed raises itself; the exception is caught
\* and printed.
MarkJobFailedRaises ==
    /\ geo_pc = "raised" /\ geo_mode = "inline"
    /\ geo_pc' = "aborted"
    /\ UNCHANGED <<TaskInputs, geo_run, geo_job, geo_idx, geo_results, geo_queue,
                   geo_pending, geo_responses, geo_failed, geo_error, OtherThanTask>>

\* run_geo_analysis, run_gap_analysis as Celery tasks: _run_async lets the
\* exception leave the task; no handler touches the job or the run.
CeleryTaskFails ==
    /\ geo_pc = "raised" /\ geo_mode = "celery"
    /\ geo_pc' = "aborted"
    /\ UNCHANGED <<TaskInputs, geo_run, geo_job, geo_idx, geo_results, geo_queue,
                   geo_pending, geo_responses, geo_failed, geo_error, OtherThanTask>>

InitTaskSpec ==
    /\ IdleKo /\ IdleGap /\ IdleScore /\ IdleIntel /\ IdleParse /\ IdleAgg
    /\ IdleCatalog /\ InitTask /\ IdleLimiter /\ IdleSerp /\ IdleInline

NextTask ==
    \/ CeleryDelay
    \/ ApiCommit
    \/ TaskNotFound
    \/ StartRun
    \/ JobRunning
    \/ LoadPrompts
    \/ StepInfo
    \/ QueryProviders
    \/ WriteTurn
    \/ WriteMentions
    \/ WriteCitations
    \/ UpdateProgress
    \/ MarkComplete
    \/ JobCompleted
    \/ GapStart
    \/ GapJobRunning
    \/ GapStep
    \/ GapComplete
    \/ GapJobCompleted
    \/ TaskRaises
    \/ MarkJobFailed
    \/ MarkJobFailedRaises
    \/ CeleryTaskFails

SpecTask == InitTaskSpec /\ [][NextTask]_vars

\* The thread of dispatch_inline and the Celery worker keep running: a
\* task that can take a step takes one.
SpecTaskFair == SpecTask /\ WF_vars(NextTask)


(***************************************************************************)
(* The steps of acquire(provider).  A caller is idle, has read the clock   *)
(* ("now"), has read the stored time ("last"), sleeps, or has returned.    *)
(***************************************************************************)
OtherThanLimiter ==
    <<koVars, gapVars, scoreVars, intelVars, parseVars, aggVars, catVars, taskVars, serpVars, inlineVars>>

RlStore(c) == StoreOf(rl_backend, rl_place, c)

\* Time passes.
Tick ==
    /\ rl_clock < MaxClock
    /\ rl_clock' = rl_clock + 1
    /\ UNCHANGED <<rl_backend, rl_place, rl_last, rl_pc, rl_now, rl_seen, rl_wake,
                   rl_grants, OtherThanLimiter>>

\* The test of the loop and what follows it: the write and the return, or
\* the sleep.
Decide(c, now, last) ==
    IF SlotFree(now, last)
    THEN /\ rl_last' = [rl_last EXCEPT ![RlStore(c)] = now]
         /\ rl_grants' = rl_grants \cup {[caller |-> c, at |-> rl_clock]}
         /\ rl_pc' = [rl_pc EXCEPT ![c] = "done"]
         /\ UNCHANGED rl_wake
    ELSE /\ rl_wake' = [rl_wake EXCEPT ![c] = now + (Interval - (now - last))]
         /\ rl_pc' = [rl_pc EXCEPT ![c] = "sleep"]
         /\ UNCHANGED <<rl_last, rl_grants>>

\* _mem_acquire in one event loop: one pass of the loop, without an await
\* between the read of the clock and the write.
MemAcquire(c) ==
    /\ AtomicAcquire(rl_backend, rl_place)
    /\ rl_pc[c] = "idle"
    /\ rl_now' = [rl_now EXCEPT ![c] = rl_clock]
    /\ rl_seen' = [rl_seen EXCEPT ![c] = rl_last[RlStore(c)]]
    /\ Decide(c, rl_clock, rl_last[RlStore(c)])
    /\ UNCHANGED <<rl_backend, rl_place, rl_clock, OtherThanLimiter>>

\* now = time.time(), in a thread or with the Redis backend.
ReadNow(c) ==
    /\ ~AtomicAcquire(rl_backend, rl_place)
    /\ rl_pc[c] = "idle"
    /\ rl_now' = [rl_now EXCEPT ![c] = rl_clock]
    /\ rl_pc' = [rl_pc EXCEPT ![c] = "now"]
    /\ UNCHANGED <<rl_backend, rl_place, rl_clock, rl_last, rl_seen, rl_wake, rl_grants,
                   OtherThanLimiter>>

\* last = _mem_last.get(provider), or last = await r.get(key)
ReadLast(c) ==
    /\ rl_pc[c] = "now"
    /\ rl_seen' = [rl_seen EXCEPT ![c] = rl_last[RlStore(c)]]
    /\ rl_pc' = [rl_pc EXCEPT ![c] = "last"]
    /\ UNCHANGED <<rl_backend, rl_place, rl_clock, rl_last, rl_now, rl_wake, rl_grants,
                   OtherThanLimiter>>

\* The test, then _mem_last[provider] = now or await r.set(key, now) and
\* the return, or the sleep.
WriteOrSleep(c) ==
    /\ rl_pc[c] = "last"
    /\ Decide(c, rl_now[c], rl_seen[c])
    /\ UNCHANGED <<rl_backend, rl_place, rl_clock, rl_now, rl_seen, OtherThanLimiter>>

\* await asyncio.sleep(wait) returns.
Wake(c) ==
    /\ rl_pc[c] = "sleep"
    /\ rl_clock >= rl_wake[c]
    /\ rl_pc' = [rl_pc EXCEPT ![c] = "idle"]
    /\ UNCHANGED <<rl_backend, rl_place, rl_clock, rl_last, rl_now, rl_seen, rl_wake,
                   rl_grants, OtherThanLimiter>>

\* The caller calls acquire again.
AcquireAgain(c) ==
    /\ rl_pc[c] = "done"
    /\ Cardinality({g \in rl_grants : g.caller = c}) < MaxAcquires
    /\ rl_pc' = [rl_pc EXCEPT ![c] = "idle"]
    /\ UNCHANGED <<rl_backend, rl_place, rl_clock, rl_last, rl_now, rl_seen, rl_wake,
                   rl_grants, OtherThanLimiter>>

InitLimiterSpec ==
    /\ IdleKo /\ IdleGap /\ IdleScore /\ IdleIntel /\ IdleParse /\ IdleAgg
    /\ IdleCatalog /\ IdleTask /\ InitLimiter /\ IdleSerp /\ IdleInline

NextLimiter ==
    \/ Tick
    \/ \E c \in Callers : MemAcquire(c)
    \/ \E c \in Callers : ReadNow(c)
    \/ \E c \in Callers : ReadLast(c)
    \/ \E c \in Callers : WriteOrSleep(c)
    \/ \E c \in Callers : Wake(c)
    \/ \E c \in Callers : AcquireAgain(c)

SpecLimiter == InitLimiterSpec /\ [][NextLimiter]_vars


(***************************************************************************)
(* The steps of _run_serp_query, and the other sites of LLM calls.         *)
(***************************************************************************)
OtherThanSerp ==
    <<koVars, gapVars, scoreVars, intelVars, parseVars, aggVars, catVars, taskVars,
      rlVars, inlineVars>>

\* The cache lookup, and on a miss rate_limiter.acquire("serp") and
\* provider.search(...).
SerpFetch ==
    /\ serp_pc = "dispatched"
    /\ \E cached \in BOOLEAN, items \in SerpItemLists :
          /\ serp_items' = items
          /\ serp_calls' = IF cached THEN <<>> ELSE SearchCalls
    /\ serp_llm' = NoLlm
    /\ serp_pc' = "items"
    /\ UNCHANGED <<serp_mode, serp_rows, serp_committed, serp_job, OtherThanSerp>>

\* provider.search raises: the exception leaves _run_serp_query.
SerpSearchFails ==
    /\ serp_pc = "dispatched"
    /\ serp_calls' = SearchCalls
    /\ serp_llm' = NoLlm
    /\ serp_pc' = "raised"
    /\ UNCHANGED <<serp_mode, serp_items, serp_rows, serp_committed, serp_job,
                   OtherThanSerp>>

\* One item of the loop: the SerpResult row, classify, the LLM fallback
\* inside try/except, the ContentClassification row.
SerpStoreItem ==
    /\ serp_pc = "items" /\ serp_items # <<>>
    /\ LET item == Head(serp_items)
       IN \E outcome \in ContentLlmOutcomes :
             /\ serp_rows' = Append(serp_rows,
                    [url |-> item.url,
                     classification |-> ItemClassification(item, outcome)])
             /\ serp_calls' = IF NeedsLlm(item) THEN LlmCalls(outcome) ELSE <<>>
             /\ serp_llm' =
                   IF NeedsLlm(item)
                   THEN LlmCall("content", outcome, ContentClassifyWithLlm(outcome).raised,
                                ContentClassifyWithLlm(outcome).result.content_type)
                   ELSE NoLlm
    /\ serp_items' = Tail(serp_items)
    /\ UNCHANGED <<serp_mode, serp_pc, serp_committed, serp_job, OtherThanSerp>>

\* sq.last_fetched_at = now; commit
SerpCommit ==
    /\ serp_pc = "items" /\ serp_items = <<>>
    /\ serp_committed' = serp_rows
    /\ serp_calls' = <<>>
    /\ serp_llm' = NoLlm
    /\ serp_pc' = "committed"
    /\ UNCHANGED <<serp_mode, serp_items, serp_rows, serp_job, OtherThanSerp>>

\* _update_job(session, job_id, status="completed", progress=1.0)
SerpJobCompleted ==
    /\ serp_pc = "committed"
    /\ serp_job' = [serp_job EXCEPT !.status = "completed", !.progress = <<1, 1>>]
    /\ serp_pc' = "returned"
    /\ UNCHANGED <<serp_mode, serp_items, serp_rows, serp_committed, serp_calls,
                   serp_llm, OtherThanSerp>>

\* The exception leaves the task: dispatch_inline marks the job failed, a
\* Celery task leaves it as it is.
SerpTaskFails ==
    /\ serp_pc = "raised"
    /\ serp_job' = IF serp_mode = "inline"
                   THEN [serp_job EXCEPT !.status = "failed", !.error = "error"]
                   ELSE serp_job
    /\ serp_rows' = <<>>
    /\ serp_pc' = "aborted"
    /\ UNCHANGED <<serp_mode, serp_items, serp_committed, serp_calls, serp_llm,
                   OtherThanSerp>>

\* geo_tasks._query_single(provider_name, prompt_text), called by a GEO run.
QuerySingle ==
    /\ \E provider \in {"openai", "perplexity"} :
          serp_calls' = QuerySingleCalls(provider)
    /\ serp_llm' = NoLlm
    /\ UNCHANGED <<serp_mode, serp_pc, serp_items, serp_rows, serp_committed, serp_job,
                   OtherThanSerp>>

\* classifier._classify_with_llm(domain), called by classify_domain.
DomainClassifyWithLlm ==
    /\ \E outcome \in LlmOutcomes :
          LET r == ClassifyWithLlm("unknown.io", outcome)
          IN /\ serp_calls' = LlmCalls(outcome)
             /\ serp_llm' = LlmCall("domain", outcome, r.raised,
                                    IF r.raised THEN NoneStr ELSE r.result.domain_type)
    /\ UNCHANGED <<serp_mode, serp_pc, serp_items, serp_rows, serp_committed, serp_job,
                   OtherThanSerp>>

InitSerpSpec ==
    /\ IdleKo /\ IdleGap /\ IdleScore /\ IdleIntel /\ IdleParse /\ IdleAgg
    /\ IdleCatalog /\ IdleTask /\ IdleLimiter /\ InitSerp /\ IdleInline

NextSerp ==
    \/ SerpFetch
    \/ SerpSearchFails
    \/ SerpStoreItem
    \/ SerpCommit
    \/ SerpJobCompleted
    \/ SerpTaskFails
    \/ QuerySingle
    \/ DomainClassifyWithLlm

SpecSerp == InitSerpSpec /\ [][NextSerp]_vars


(***************************************************************************)
(* The steps of dispatch_inline's _target in the thread of worker w, and   *)
(* a request of the main thread.  The interpreter can switch threads       *)
(* between any two statements.                                             *)
(***************************************************************************)
OtherThanInline ==
    <<koVars, gapVars, scoreVars, intelVars, parseVars, aggVars, catVars, taskVars,
      rlVars, serpVars>>

\* thread = threading.Thread(target=_target, ...); thread.start()
DispatchInline(w) ==
    /\ inline_pc[w] = "idle"
    /\ inline_pc' = [inline_pc EXCEPT ![w] = "started"]
    /\ UNCHANGED <<async_session, original_session, session_uses, OtherThanInline>>

\* original_session = db_module.async_session
SaveOriginal(w) ==
    /\ inline_pc[w] = "started"
    /\ original_session' = [original_session EXCEPT ![w] = async_session]
    /\ inline_pc' = [inline_pc EXCEPT ![w] = "saved"]
    /\ UNCHANGED <<async_session, session_uses, OtherThanInline>>

\* worker_session = create_worker_session();
\* db_module.async_session = worker_session
PatchSession(w) ==
    /\ inline_pc[w] = "saved"
    /\ async_session' = Patched(async_session, w)
    /\ inline_pc' = [inline_pc EXCEPT ![w] = "patched"]
    /\ UNCHANGED <<original_session, session_uses, OtherThanInline>>

\* loop.run_until_complete(coro_factory()): the task opens its session
\* with `async with _db.async_session() as session`.
RunTask(w) ==
    /\ inline_pc[w] = "patched"
    /\ session_uses' = session_uses \cup {Use(w, async_session)}
    /\ inline_pc' = [inline_pc EXCEPT ![w] = "ran"]
    /\ UNCHANGED <<async_session, original_session, OtherThanInline>>

\* except Exception: _mark_job_failed(worker_session, job_id, str(e)): the
\* handler opens a session with the worker's own factory.
TaskFailed(w) ==
    /\ inline_pc[w] = "ran"
    /\ session_uses' = session_uses \cup {Use(w, w)}
    /\ inline_pc' = [inline_pc EXCEPT ![w] = "marked"]
    /\ UNCHANGED <<async_session, original_session, OtherThanInline>>

\* finally: loop.close(); db_module.async_session = original_session
RestoreSession(w) ==
    /\ inline_pc[w] \in {"ran", "marked"}
    /\ async_session' = original_session[w]
    /\ inline_pc' = [inline_pc EXCEPT ![w] = "done"]
    /\ UNCHANGED <<original_session, session_uses, OtherThanInline>>

\* get_db() for a request of the main thread: async with async_session()
GetDb ==
    /\ \E w \in Workers : inline_pc[w] # "unused"
    /\ session_uses' = session_uses \cup {Use(MainThread, async_session)}
    /\ UNCHANGED <<async_session, original_session, inline_pc, OtherThanInline>>

InitInlineSpec ==
    /\ IdleKo /\ IdleGap /\ IdleScore /\ IdleIntel /\ IdleParse /\ IdleAgg
    /\ IdleCatalog /\ IdleTask /\ IdleLimiter /\ IdleSerp /\ InitInline

NextInline ==
    \/ \E w \in Workers : DispatchInline(w)
    \/ \E w \in Workers : SaveOriginal(w)
    \/ \E w \in Workers : PatchSession(w)
    \/ \E w \in Workers : RunTask(w)
    \/ \E w \in Workers : TaskFailed(w)
    \/ \E w \in Workers : RestoreSession(w)
    \/ GetDb

SpecInline == InitInlineSpec /\ [][NextInline]_vars

----
(***************************************************************************)
(* Properties of the Key Opportunity Scorer.                               *)
(***************************************************************************)
Scored == ko_pc = "scored"

OppDomains == {opportunities[i].domain : i \in 1..Len(opportunities)}

\* C1: score_key_opportunities returns a record for a domain if and only if
\* the input record has client_present = false and a non-empty competitor
\* list: no client-present and no competitor-free domain is in the output,
\* and every other input record yields exactly one output record.
C1_FilterIff ==
    Scored =>
        /\ \A j \in 1..Len(domain_intel) :
              LET d == domain_intel[j]
                  n == Cardinality({i \in 1..Len(opportunities) :
                                      opportunities[i].domain = d.domain})
              IN IF d.client_present \/ d.competitor_brands_present = <<>>
                 THEN n = 0
                 ELSE n = 1
        /\ OppDomains \subseteq {domain_intel[j].domain : j \in 1..Len(domain_intel)}

\* A list holding a client-owned domain with competitors, a competitor-free
\* domain and one qualifying domain has been scored.
C1_Witness ==
    /\ Scored
    /\ \E j \in 1..Len(domain_intel) :
          domain_intel[j].client_present /\ domain_intel[j].competitor_brands_present # <<>>
    /\ \E j \in 1..Len(domain_intel) :
          ~domain_intel[j].client_present /\ domain_intel[j].competitor_brands_present = <<>>
    /\ Len(opportunities) = 1

\* C2: each of the five dimension scores and the combined score of every
\* output record lies in [0, 100], and no scorer returns a negative value
\* (or more than 100) for any input record.
C2_ScoreBounds ==
    /\ \A i \in 1..Len(opportunities) :
          LET o == opportunities[i]
          IN /\ o.seo_score \in 0..100
             /\ o.geo_score \in 0..100
             /\ o.backlink_score \in 0..100
             /\ o.content_gap_score \in 0..100
             /\ o.competitive_density \in 0..100
             /\ o.key_opportunity_score \in 0..1000
    /\ \A j \in 1..Len(domain_intel) :
          LET d == domain_intel[j]
          IN /\ ScoreSeo(d) \in 0..100
             /\ ScoreGeo(d) \in 0..100
             /\ ScoreBacklink(d) \in 0..100
             /\ ScoreContentGap(d) \in 0..100
             /\ ScoreCompetitiveDensity(d) \in 0..100

\* A record whose SEO and content-gap points add up to 110 has been scored
\* and carries 100 on four dimensions.
C2_Witness ==
    /\ Scored
    /\ \E i \in 1..Len(opportunities) :
          /\ opportunities[i].seo_score = 100
          /\ opportunities[i].content_gap_score = 100
          /\ opportunities[i].geo_score = 100
          /\ opportunities[i].backlink_score = 100

AddCompetitor(d) ==
    [d EXCEPT !.competitor_brands_present = @ \o <<"one-more">>]

\* C4: adding one more competitor brand to a record, all other fields
\* unchanged, never decreases its competitive-density score.
C4_Monotone ==
    \A j \in 1..Len(domain_intel) :
        ScoreCompetitiveDensity(AddCompetitor(domain_intel[j]))
            >= ScoreCompetitiveDensity(domain_intel[j])

\* A scored record with MaxCompetitors brands, whose density the output
\* carries, and which one more brand leaves at or above that score.
C4_Witness ==
    /\ Scored
    /\ \E i \in 1..Len(opportunities), j \in 1..Len(domain_intel) :
          /\ opportunities[i].domain = domain_intel[j].domain
          /\ Len(domain_intel[j].competitor_brands_present) >= 4
          /\ opportunities[i].competitive_density
                = ScoreCompetitiveDensity(domain_intel[j])
          /\ ScoreCompetitiveDensity(AddCompetitor(domain_intel[j]))
                >= opportunities[i].competitive_density

\* C5: the returned list is sorted by combined score, descending.
C5_SortedDesc ==
    Scored =>
        \A i \in 1..(Len(opportunities) - 1) :
            opportunities[i].key_opportunity_score
                >= opportunities[i + 1].key_opportunity_score

\* The input held a lower-scoring qualifying record before a higher-scoring
\* one, and the output has them the other way round.
C5_Witness ==
    /\ Scored
    /\ Len(opportunities) >= 2
    /\ opportunities[1].key_opportunity_score > opportunities[2].key_opportunity_score
    /\ \E j, k \in 1..Len(domain_intel) :
          /\ j < k
          /\ domain_intel[k].domain = opportunities[1].domain
          /\ domain_intel[j].domain = opportunities[2].domain


----
(***************************************************************************)
(* Properties of the Gap Analyzer.  Evidence on an excluded domain (or     *)
(* with an empty url) is dropped before gap detection; the properties      *)
(* speak of the evidence that is kept.                                     *)
(***************************************************************************)
GapDone == gap_pc = "done"

GapOpps == gap_result.opportunities

KeptGeo ==
    {i \in 1..Len(geo_citations) :
        geo_citations[i].url # "" /\ geo_citations[i].domain \notin excluded_domains}

KeptSerp ==
    {i \in 1..Len(serp_results) :
        serp_results[i].url # "" /\ serp_results[i].domain \notin excluded_domains}

InGeo(u) == \E i \in KeptGeo : geo_citations[i].url = u
InSerp(u) == \E i \in KeptSerp : serp_results[i].url = u

\* The domain of the record of u: that of the first kept row naming u,
\* citations before SERP rows.
RecordDomain(u) ==
    IF InGeo(u)
    THEN geo_citations[CHOOSE i \in KeptGeo :
            /\ geo_citations[i].url = u
            /\ \A j \in KeptGeo : geo_citations[j].url = u => i <= j].domain
    ELSE serp_results[CHOOSE i \in KeptSerp :
            /\ serp_results[i].url = u
            /\ \A j \in KeptSerp : serp_results[j].url = u => i <= j].domain

CompetitorAssociated(u) ==
    \E i \in KeptGeo :
        /\ geo_citations[i].url = u
        /\ geo_citations[i].brand_name \in {"Acme", "ACME"}

ClientAssociated(u) ==
    \/ \E i \in KeptGeo :
          geo_citations[i].url = u /\ geo_citations[i].brand_name = "Client"
    \/ \E i \in KeptSerp :
          serp_results[i].url = u /\ serp_results[i].domain = "client.com"
                                  /\ client_domains # <<>>

ClientOwned(domain) == client_domains # <<>> /\ domain = "client.com"

Surfaced(u) == \E i \in 1..Len(GapOpps) : GapOpps[i].url = u

\* C7: a URL is surfaced as an opportunity if and only if its domain is not
\* client-owned, at least one competitor brand is associated with it and
\* the client brand is not; every surfaced opportunity has client_present
\* false and a non-empty competitor list; a single competitor citation with
\* no SERP rows gives exactly one opportunity, found in GEO only.
C7_GapIff ==
    GapDone =>
        /\ \A u \in GapUrls \cup {""} :
              Surfaced(u) <=>
                  /\ InGeo(u) \/ InSerp(u)
                  /\ ~ClientOwned(RecordDomain(u))
                  /\ CompetitorAssociated(u)
                  /\ ~ClientAssociated(u)
        /\ \A i \in 1..Len(GapOpps) :
              ~GapOpps[i].client_present /\ GapOpps[i].competitor_brands # {}
        /\ (/\ Len(geo_citations) = 1 /\ serp_results = <<>>
            /\ KeptGeo = {1} /\ CompetitorAssociated(geo_citations[1].url)
            /\ ~ClientOwned(geo_citations[1].domain))
           => /\ Len(GapOpps) = 1
              /\ GapOpps[1].found_in_geo /\ ~GapOpps[1].found_in_serp

\* The spec's scenario next to a second URL: one URL cited for a competitor
\* is surfaced, found in GEO only; another cited URL is not surfaced.
C7_Witness ==
    /\ GapDone
    /\ Len(GapOpps) = 1
    /\ GapOpps[1].found_in_geo /\ ~GapOpps[1].found_in_serp
    /\ \E v \in GapUrls : InGeo(v) /\ ~Surfaced(v)

\* C8: no returned opportunity has a domain in excluded_domains, whatever
\* brands are cited for it and whichever source the evidence came from.
C8_NoExcluded ==
    \A i \in 1..Len(GapOpps) : GapOpps[i].domain \notin excluded_domains

\* A competitor is cited on an excluded domain, nothing for it is surfaced,
\* and a URL on another domain is.
C8_Witness ==
    /\ GapDone
    /\ \E i \in 1..Len(geo_citations) :
          /\ geo_citations[i].url # ""
          /\ geo_citations[i].domain \in excluded_domains
          /\ geo_citations[i].brand_name = "Acme"
          /\ ~Surfaced(geo_citations[i].url)
    /\ Len(GapOpps) = 1

\* C10: one record per unique URL: at most one opportunity per URL, the
\* number of records is the number of distinct URLs, and an opportunity is
\* found_in_geo (found_in_serp) exactly when its URL is among the citations
\* (the SERP rows) -- so a URL in both sources carries both flags.
C10_OnePerUrl ==
    GapDone =>
        /\ \A i, j \in 1..Len(GapOpps) : GapOpps[i].url = GapOpps[j].url => i = j
        /\ gap_result.total_urls_analyzed
              = Cardinality({u \in GapUrls : InGeo(u) \/ InSerp(u)})
        /\ \A i \in 1..Len(GapOpps) :
              /\ GapOpps[i].found_in_geo <=> InGeo(GapOpps[i].url)
              /\ GapOpps[i].found_in_serp <=> InSerp(GapOpps[i].url)

\* A URL cited by an LLM and ranked in a SERP is surfaced once, with both
\* flags.
C10_Witness ==
    /\ GapDone
    /\ \E u \in GapUrls : InGeo(u) /\ InSerp(u) /\ Surfaced(u)
    /\ Len(GapOpps) = 1
    /\ GapOpps[1].found_in_geo /\ GapOpps[1].found_in_serp

----
(***************************************************************************)
(* The opportunity score.                                                  *)
(***************************************************************************)
Clamp(lo, hi, x) == IF x < lo THEN lo ELSE IF x > hi THEN hi ELSE x

SourcePoints(data) ==
    CASE data.found_in_geo /\ data.found_in_serp -> 25
      [] data.found_in_geo /\ ~data.found_in_serp -> 15
      [] ~data.found_in_geo /\ data.found_in_serp -> 10
      [] OTHER -> 0

ContentPoints(ct) ==
    CASE ct = "ranking" -> 20 [] ct = "review" -> 15 [] ct = "solution" -> 10 [] OTHER -> 0

DomainPoints(dt) ==
    CASE dt = "editorial" -> 15 [] dt = "ugc" -> 5 [] OTHER -> 0

\* C9: the opportunity score is min(30, 10 x competitorCount) + 25 / 15 /
\* 10 for both sources / GEO only / SERP only + 20 / 15 / 10 for ranking /
\* review / solution content + 15 / 5 for an editorial / UGC domain,
\* clamped to [0, 100].
C9_ScoreFormula ==
    score_out # NoneInt =>
        score_out = Clamp(0, 100,
                          Min(30, 10 * Cardinality(score_data.competitors))
                          + SourcePoints(score_data)
                          + ContentPoints(score_data.content_type)
                          + DomainPoints(score_data.domain_type))

\* Four competitors on a ranking article of an editorial domain, found in
\* both sources: 30 + 25 + 20 + 15.
C9_Witness ==
    /\ Cardinality(score_data.competitors) = 4
    /\ score_data.found_in_geo /\ score_data.found_in_serp
    /\ score_data.content_type = "ranking"
    /\ score_data.domain_type = "editorial"
    /\ score_out = 90

----
(***************************************************************************)
(* Properties of collect_domain_intelligence + score_key_opportunities     *)
(* under SpecIntel.                                                        *)
(***************************************************************************)

\* The scores of a result, in the order of the result.
ScoresInOrder(opps) ==
    [i \in 1..Len(opps) |->
        <<opps[i].domain, opps[i].seo_score, opps[i].geo_score, opps[i].backlink_score,
          opps[i].content_gap_score, opps[i].competitive_density,
          opps[i].key_opportunity_score>>]

\* A run has been scored and the run before it, on the same data, is kept.
RerunDone == ko_pc = "scored" /\ previous_run.completed

\* C6: running collect_domain_intelligence and score_key_opportunities
\* again on an unchanged data set gives the same scores in the same order,
\* whatever order the stored rows come back in, ties included.
C6_RerunIdentical ==
    RerunDone =>
        ScoresInOrder(opportunities) = ScoresInOrder(previous_run.opportunities)

\* Two runs are complete and the result holds two opportunities with the
\* same key_opportunity_score.
C6_Witness ==
    /\ RerunDone
    /\ \E i, j \in 1..Len(opportunities) :
            /\ i < j
            /\ opportunities[i].key_opportunity_score
                   = opportunities[j].key_opportunity_score

\* What a rerun does preserve: every domain's scores.
C6_SameScoresPerDomain ==
    RerunDone =>
        Range(ScoresInOrder(opportunities))
            = Range(ScoresInOrder(previous_run.opportunities))

\* collect_domain_intelligence has returned its records.
Collected == ko_pc \in {"input", "scored"}

NoDuplicates(xs) == Cardinality(Range(xs)) = Len(xs)

GapRowsOf(domain) == {gi \in db.gap_items : RowDomain(gi) = domain}
CatalogRowsOf(domain) == {dom \in db.catalog : dom.domain = domain}

\* The list fields that hold names or URLs.
ListFieldsUnique(d) ==
    /\ NoDuplicates(d.serp_urls)
    /\ NoDuplicates(d.serp_keywords)
    /\ NoDuplicates(d.serp_content_types)
    /\ NoDuplicates(d.niches)
    /\ NoDuplicates(d.competitor_brands_present)
    /\ NoDuplicates(d.geo_providers)
    /\ NoDuplicates(d.geo_mentioned_brands)

\* client_present is the OR of the gap items' flags and of the client
\* domain mark.
BooleansOr(d) ==
    d.client_present <=>
        \/ \E gi \in GapRowsOf(d.domain) : gi.client_present
        \/ d.domain \in ClientDomainsOf(db.brands)

\* The catalog's domain_type and accepts_sponsored overwrite when they are
\* set; otherwise the value of the first source that had one stays.
OptionalFields(d) ==
    LET cat == CatalogRowsOf(d.domain)
        types == {gi.domain_type : gi \in {g \in GapRowsOf(d.domain) : StrTruthy(g.domain_type)}}
    IN /\ IF \E dom \in cat : StrTruthy(dom.domain_type)
          THEN \E dom \in cat : d.domain_type = dom.domain_type
          ELSE IF types = {} THEN d.domain_type = NoneStr ELSE d.domain_type \in types
       /\ IF \E dom \in cat : dom.accepts_sponsored # "None"
          THEN \E dom \in cat : d.accepts_sponsored = dom.accepts_sponsored
          ELSE d.accepts_sponsored = "None"
       /\ IF cat = {}
          THEN /\ d.display_name = NoneStr
               /\ d.domain_authority = NoneInt
               /\ d.monthly_traffic = NoneInt
          ELSE \E dom \in cat :
                  /\ d.display_name = dom.display_name
                  /\ d.domain_authority = dom.domain_authority
                  /\ d.monthly_traffic = dom.monthly_traffic_estimate

\* C25: collect_domain_intelligence merges the sources of a domain
\* additively: every list field of a returned record is duplicate-free, the
\* boolean field is the OR of the sources, and an optional field keeps the
\* first value it got, except domain_type and accepts_sponsored, which the
\* domain catalog overwrites.
C25_AdditiveMerge ==
    Collected =>
        \A i \in 1..Len(domain_intel) :
            /\ ListFieldsUnique(domain_intel[i])
            /\ BooleansOr(domain_intel[i])
            /\ OptionalFields(domain_intel[i])

\* Two gap items of the same domain, content type and keyword were
\* collected into one record.
C25_Witness ==
    /\ Collected
    /\ Cardinality({gi \in GapRowsOf("elpais.com") :
                       gi.content_type = "ranking" /\ gi.keyword = "k1"}) = 2
    /\ \E i \in 1..Len(domain_intel) :
          /\ domain_intel[i].domain = "elpais.com"
          /\ Len(domain_intel[i].serp_urls) = 2

\* The merge policy without the keywords and content types of gap items.
C25_MergeButGapLists ==
    Collected =>
        \A i \in 1..Len(domain_intel) :
            /\ NoDuplicates(domain_intel[i].serp_urls)
            /\ NoDuplicates(domain_intel[i].niches)
            /\ NoDuplicates(domain_intel[i].competitor_brands_present)
            /\ NoDuplicates(domain_intel[i].geo_providers)
            /\ NoDuplicates(domain_intel[i].geo_mentioned_brands)
            /\ BooleansOr(domain_intel[i])
            /\ OptionalFields(domain_intel[i])

\* The domain, lowercased and without "www.", is the normalised domain of
\* a client brand.
MatchesClientDomain(domain) ==
    RemovePrefixWww(Lower(domain)) \in
        {RemovePrefixWww(Lower(b.domain)) :
            b \in {x \in db.brands : x.is_client /\ x.domain # NoneStr}}

\* C26: after collect_domain_intelligence every returned record whose
\* domain matches a client-owned domain, both normalised, has
\* client_present = true, and score_key_opportunities returns no
\* opportunity for it.
C26_ClientDomainsMarked ==
    /\ Collected =>
          \A i \in 1..Len(domain_intel) :
              MatchesClientDomain(domain_intel[i].domain) => domain_intel[i].client_present
    /\ ko_pc = "scored" =>
          \A i \in 1..Len(opportunities) : ~MatchesClientDomain(opportunities[i].domain)

\* The client's domain was typed "WWW.Client.com"; a gap item of
\* client.com with a competitor brand and client_present false was
\* collected, and the records were scored.
C26_Witness ==
    /\ ko_pc = "scored"
    /\ \E b \in db.brands : b.is_client /\ b.domain = "WWW.Client.com"
    /\ \E gi \in db.gap_items : gi.domain = "client.com" /\ ~gi.client_present
    /\ \E i \in 1..Len(domain_intel) :
          /\ domain_intel[i].domain = "client.com"
          /\ domain_intel[i].competitor_brands_present # <<>>
          /\ domain_intel[i].client_present
    /\ opportunities # <<>>
----
(***************************************************************************)
(* Properties of parse_response under SpecParse.                           *)
(***************************************************************************)
Parsed == parse_pc = "parsed"

Mentions == parsed.mentions
Citations == parsed.citations

\* Token index of the first match of a name in the text.
FirstSeen(name) == Head(Finditer(name, text))

\* C11: parse_response returns at most one mention record per brand, a
\* brand's name and aliases counting as the same brand, and the record kept
\* has the lowest position given to any match of that brand.
C11_OneMentionPerBrand ==
    Parsed =>
        /\ \A i, j \in 1..Len(Mentions) :
                i # j => BrandOfName(Mentions[i].brand_name)
                            # BrandOfName(Mentions[j].brand_name)
        /\ \A i \in 1..Len(Mentions) :
                \A m \in Range(AllMentions(text, brand_names)) :
                    BrandOfName(m.brand_name) = BrandOfName(Mentions[i].brand_name)
                        => Mentions[i].position <= m.position

\* A brand matched by both its name and its alias has been parsed.
C11_Witness ==
    /\ Parsed
    /\ \E a, b \in Range(AllMentions(text, brand_names)) :
            /\ a.brand_name # b.brand_name
            /\ BrandOfName(a.brand_name) = BrandOfName(b.brand_name)

\* C12: positions are 1, 2, 3... in the order in which the brands are first
\* seen in the text: a brand first occurring earlier in the text has the
\* lower position, whatever the order of brand_names.
C12_PositionIsTextRank ==
    Parsed =>
        /\ \A i \in 1..Len(Mentions) : Mentions[i].position = i
        /\ \A i, j \in 1..Len(Mentions) :
                FirstSeen(Mentions[i].brand_name) < FirstSeen(Mentions[j].brand_name)
                    => Mentions[i].position < Mentions[j].position

\* Two brands were found, first seen at different places of the text.
C12_Witness ==
    /\ Parsed
    /\ \E i, j \in 1..Len(Mentions) :
            FirstSeen(Mentions[i].brand_name) < FirstSeen(Mentions[j].brand_name)

\* C13: the citations hold each URL at most once.
C13_UrlsUnique ==
    Parsed =>
        \A i, j \in 1..Len(Citations) : i # j => Citations[i].url # Citations[j].url

\* A URL given as a markdown link and again as a bare URL has been parsed.
C13_Witness ==
    /\ Parsed
    /\ \E i, j \in 1..Len(text) :
            /\ text[i].kind = "md"
            /\ text[j].kind = "url"
            /\ BareUrl(text[j].s) = text[i].s

\* C14: every citation has a position, a citation the provider numbered
\* keeps its number, and no two citations share a position.
C14_PositionsDistinct ==
    Parsed =>
        /\ \A i \in 1..Len(Citations) : Citations[i].position # NoneInt
        /\ \A i \in 1..Len(NativeCitations(native_citations)) :
                Citations[i].position = NativeCitations(native_citations)[i].position
        /\ \A i, j \in 1..Len(Citations) :
                i # j => Citations[i].position # Citations[j].position

\* Provider citations and citations from the text have been parsed together.
C14_Witness ==
    /\ Parsed
    /\ NativeCitations(native_citations) # <<>>
    /\ Len(Citations) > Len(NativeCitations(native_citations))
----
(***************************************************************************)
(* Properties of aggregate under SpecAgg.                                  *)
(***************************************************************************)
Aggregated == agg_pc = "aggregated"

AggBrands == agg_result.brands

Abs(x) == IF x < 0 THEN -x ELSE x

\* Sum of the global shares, and of one provider's shares, in tenths.
ShareSum == SumSeq([i \in 1..Len(AggBrands) |-> AggBrands[i].visibility_pct])

ProviderShareSum(prov) ==
    SumSeq([i \in 1..Len(AggBrands) |-> AggBrands[i].provider_breakdown[prov].visibility_pct])

CountSum == SumSeq([i \in 1..Len(AggBrands) |-> AggBrands[i].mention_count])

ProviderCountSum(prov) ==
    SumSeq([i \in 1..Len(AggBrands) |-> AggBrands[i].provider_breakdown[prov].mention_count])

\* A sum of n shares rounded to one decimal is 100 up to rounding: off by
\* at most half a tenth per share.
SumsTo100(sum, n) == 2 * Abs(sum - 1000) <= n

\* C15: with at least one counted mention the visibility_pct of all brands
\* sum to 100 up to rounding, and so do the per-provider shares of every
\* provider with a mention, each taken against that provider's total; with
\* a total of 0 every share is 0.
C15_ShareOfVoice ==
    Aggregated =>
        /\ IF CountSum > 0
           THEN SumsTo100(ShareSum, Len(AggBrands))
           ELSE \A i \in 1..Len(AggBrands) : AggBrands[i].visibility_pct = 0
        /\ \A prov \in ProvidersSet(agg_responses) :
                IF ProviderCountSum(prov) > 0
                THEN SumsTo100(ProviderShareSum(prov), Len(AggBrands))
                ELSE \A i \in 1..Len(AggBrands) :
                        AggBrands[i].provider_breakdown[prov].visibility_pct = 0

\* Three brands with one mention each, from two providers: the shares are
\* 33.3 each, and one provider has a single brand at 100.
C15_Witness ==
    /\ Aggregated
    /\ CountSum > 0
    /\ ShareSum # 1000
    /\ \E prov \in ProvidersSet(agg_responses) :
            /\ ProviderCountSum(prov) > 0
            /\ ProviderCountSum(prov) < CountSum

\* C16: aggregate returns the same result for every permutation of the
\* responses list.
C16_OrderIndependent ==
    Aggregated =>
        \A p \in Permutations(1..Len(agg_responses)) :
            Aggregate([i \in 1..Len(agg_responses) |-> agg_responses[p[i]]],
                      agg_brand_names, agg_result.total_prompts) = agg_result

\* Two responses citing different domains have been aggregated.
C16_Witness ==
    /\ Aggregated
    /\ Len(agg_result.top_cited_domains) >= 2
    /\ Len(agg_responses) >= 2
    /\ agg_responses[1] # agg_responses[2]

(***************************************************************************)
(* Properties of the domain classifier and the domain catalog.             *)
(***************************************************************************)
Classified == cat_response.op = "classify"

\* C17: classify_domain never lets the LLM tier override a rules result.  A
\* domain that the rules engine classifies (known list or pattern) is
\* returned with exactly the rules result and without an LLM call, whatever
\* use_llm_fallback is; the LLM is called only when the rules engine returned
\* no domain type and the caller opted in.
C17_RulesNotOverridden ==
    Classified =>
        \A domain \in cat_request.domains :
            LET rules == ClassifyByRules(domain)
            IN /\ rules.domain_type # NoneStr =>
                    /\ cat_response.status = 200
                    /\ cat_response.items = {Item(domain, rules)}
                    /\ cat_response.llm_calls = {}
               /\ cat_response.llm_calls # {} =>
                    /\ rules.domain_type = NoneStr
                    /\ cat_request.use_llm_fallback

\* elpais.com was classified with use_llm_fallback = true.
C17_Witness ==
    /\ Classified
    /\ cat_request = Request({"elpais.com"}, TRUE)
    /\ cat_response.items = {Item("elpais.com", Row("editorial", "True", "known_list"))}
    /\ cat_response.llm_calls = {}

\* The LLM tier is used: an unknown domain was classified by the LLM.
C17_LlmUsed ==
    /\ Classified
    /\ cat_request = Request({"unknown.io"}, TRUE)
    /\ \E i \in cat_response.items : i.classified_by = "llm" /\ i.domain_type = "corporate"

Manual(d) == catalog[d].classified_by = "manual"

\* No classify, batch-classify or metrics request changes the row of a
\* manually classified domain.
C18_ManualKept ==
    [][cat_response'.op \in {"classify", "batch_classify", "run_metrics"} =>
          \A d \in CatalogDomains : Manual(d) => catalog'[d] = catalog[d]]_vars

\* Every classification reported for a manually classified domain is the
\* one of its row.
C18_ManualReported ==
    \A i \in cat_response.items :
        LET d == NormDomain(i.domain)
        IN (d \in CatalogDomains /\ Manual(d)) =>
              /\ i.domain_type = catalog[d].domain_type
              /\ i.accepts_sponsored = catalog[d].accepts_sponsored

\* C18: once a catalog domain carries classified_by = manual, no sequence of
\* classify and batch-classify requests changes its domain_type,
\* accepts_sponsored or classified_by (only an explicit manual update does),
\* and wherever a classification is reported for that domain the manual
\* value is the one used.
C18_ManualWins == C18_ManualKept /\ []C18_ManualReported

\* elpais.com is manually classified as corporate and a classify request
\* for it has been answered.
C18_Witness ==
    /\ catalog["elpais.com"] = Row("corporate", "True", "manual")
    /\ Classified
    /\ cat_request.domains = {"elpais.com"}
    /\ cat_response.status = 200

\* A batch-classify request for a manually classified domain reports its row.
C18_BatchReportsManual ==
    cat_response.op = "batch_classify" =>
        \A i \in cat_response.items :
            Manual(i.domain) => i = Item(i.domain, catalog[i.domain])

(***************************************************************************)
(* Properties of the background tasks.                                     *)
(***************************************************************************)
\* The task has returned, or its exception has left the task and the
\* handler of the runner, if any, has run.
Terminated == geo_pc \in {"returned", "aborted"}

\* The stored row of a turn with its mentions and citations.
ResponseRow(prompt, provider, turn) ==
    GeoResponse([prompt |-> prompt, provider |-> provider, turn |-> turn], "complete")

\* C19: if a GEO or gap analysis fails with an unrecoverable error, the job
\* and the run end in status 'failed' with an error message; once the task
\* has terminated, neither the background job nor its run is left in
\* 'running'.
C19_FailedNotRunning ==
    Terminated =>
        /\ geo_job.status # "running"
        /\ geo_run.status # "running"
        /\ geo_error # NoneStr =>
              /\ geo_job.status = "failed"
              /\ geo_job.error # NoneStr
              /\ geo_run.status = "failed"

\* An inline GEO task raised after the first prompt was stored and the job
\* was marked failed.
C19_Witness ==
    /\ geo_kind = "geo" /\ geo_mode = "inline"
    /\ geo_pc = "aborted"
    /\ geo_job.status = "failed" /\ geo_job.error = "error"
    /\ geo_run.completed_prompts > 0
    /\ geo_run.status = "running"

\* A task that returns leaves the job and the run completed.
C19_ReturnedCompleted ==
    geo_pc = "returned" => geo_job.status = "completed" /\ geo_run.status = "completed"

\* C20: a failed or timed-out LLM call for one (prompt, provider) pair does
\* not abort the GEO run: the task never raises because of it, no response
\* is stored for that pair, the responses of every other pair of the same
\* prompt and of all later prompts are stored, and the run ends 'completed'.
C20_FailedPairSkipped ==
    /\ geo_error # "llm error"
    /\ \A r \in geo_responses \cup geo_pending : <<r.prompt, r.provider>> \notin geo_failed
    /\ (geo_kind = "geo" /\ geo_pc = "returned") =>
          /\ geo_run.status = "completed"
          /\ \A prompt \in 1..geo_prompts, i \in 1..Len(geo_run.providers) :
                <<prompt, geo_run.providers[i]>> \notin geo_failed =>
                    /\ ResponseRow(prompt, geo_run.providers[i], 1) \in geo_responses
                    /\ ResponseRow(prompt, geo_run.providers[i], 3) \in geo_responses

\* The call of openai failed for the first prompt; the responses of
\* perplexity for that prompt and of openai for the second are stored and
\* the run is completed.
C20_Witness ==
    /\ geo_pc = "returned"
    /\ geo_failed = {<<1, "openai">>}
    /\ ResponseRow(1, "perplexity", 1) \in geo_responses
    /\ ResponseRow(2, "openai", 1) \in geo_responses
    /\ geo_run.status = "completed"

\* The rows of the session whose mentions or citations are not all added.
Incomplete(rows) == {r \in rows : r.children # "complete"}

\* C24: the results of a GEO run are written serially, turn by turn: at
\* most one turn of the session is being written at a time, every
\* committed GeoResponse row has all of its mentions and citations, and no
\* commit happens between the row of a turn and its child rows.
C24_TurnsCommittedWhole ==
    /\ Cardinality(Incomplete(geo_pending)) <= 1
    /\ Incomplete(geo_responses) = {}
    /\ Incomplete(geo_pending) # {} => geo_pc = "write"

\* The first prompt is committed, and a turn of the second prompt is in the
\* session with its mentions but without its citations.
C24_Witness ==
    /\ geo_pc = "write"
    /\ ResponseRow(1, "openai", 3) \in geo_responses
    /\ GeoResponse([prompt |-> 2, provider |-> "openai", turn |-> 1], "mentions")
          \in geo_pending

\* A task that raises while a turn is being written leaves no row of that
\* prompt committed.
C24_RaiseRollsBack ==
    [][(geo_pc = "write" /\ geo_pc' = "raised") =>
          /\ geo_pending' = {}
          /\ geo_responses' = geo_responses
          /\ \A r \in geo_responses : r.prompt <= geo_idx]_vars

\* The job has a terminal status.
JobTerminal == geo_job.status \in {"completed", "failed"}

\* C29: every background job created by an endpoint eventually reaches a
\* terminal status, completed or failed, on the inline and on the Celery
\* path: the dispatched task finds its run and its job, and the job does
\* not stay 'pending' forever.
C29_JobTerminates == <>JobTerminal

\* The Celery task ran before the request committed: it found no run and
\* returned, and the job is 'pending'.
C29_Witness ==
    /\ geo_mode = "celery" /\ geo_pc = "not_found"
    /\ geo_job.status = "pending"

\* On the inline path the task finds its rows, and the job ends completed
\* or failed unless _mark_job_failed fails itself.
C29_InlineJobTerminates ==
    geo_mode = "inline" => <>(JobTerminal \/ geo_pc = "aborted")

\* A progress value <<n, d>> lies within [0, 1]; p is at most q.
InUnitInterval(p) == p[2] > 0 /\ 0 <= p[1] /\ p[1] <= p[2]
AtMost(p, q) == p[1] * q[2] <= q[1] * p[2]

\* The counters of the run in one state.
RunCounters(run) ==
    /\ run.completed_prompts <= run.total_prompts
    /\ run.status = "completed" => run.completed_prompts = run.total_prompts

\* The progress of the job in one state and over one step.
JobProgress(job, next) ==
    /\ InUnitInterval(next.progress)
    /\ AtMost(job.progress, next.progress)
    /\ next.status = "completed" => next.progress[1] = next.progress[2]

\* C30: throughout a GEO run run.completed_prompts never decreases and
\* never exceeds run.total_prompts, the progress of the job stays within
\* [0, 1] and never decreases, and when the run is completed
\* completed_prompts equals total_prompts and the progress is 1.0.
C30_CountersConsistent ==
    [][geo_kind = "geo" =>
          /\ geo_run.completed_prompts <= geo_run'.completed_prompts
          /\ RunCounters(geo_run')
          /\ JobProgress(geo_job, geo_job')]_vars

\* A run of two prompts with two providers has returned completed.
C30_Witness ==
    /\ geo_kind = "geo" /\ geo_pc = "returned"
    /\ geo_prompts = 2 /\ Len(geo_run.providers) = 2
    /\ geo_run.status = "completed"

\* The progress of the job is as required, completed_prompts never
\* decreases, and with a single provider the counters of the run are as
\* required.
C30_OneProviderConsistent ==
    [][geo_kind = "geo" =>
          /\ geo_run.completed_prompts <= geo_run'.completed_prompts
          /\ JobProgress(geo_job, geo_job')
          /\ Len(geo_run.providers) = 1 => RunCounters(geo_run')]_vars

\* One step of a status column: no change, pending -> running, or
\* running -> completed or failed.
StatusStep(old, new) ==
    \/ new = old
    \/ old = "pending" /\ new = "running"
    \/ old = "running" /\ new \in {"completed", "failed"}

\* C21: the status of the background job and of the analysis run only moves
\* pending -> running -> completed or failed: never to completed or failed
\* without having been running, never backwards, and a completed job or run
\* (and the job's result) never changes again.
C21_StatusMonotonic ==
    [][/\ StatusStep(geo_job.status, geo_job'.status)
       /\ StatusStep(geo_run.status, geo_run'.status)
       /\ geo_job.status = "completed" => geo_job' = geo_job
       /\ geo_run.status = "completed" => geo_run' = geo_run]_vars

\* The inline task raised before the job was set to running, and the job
\* was marked failed.
C21_Witness ==
    /\ geo_mode = "inline" /\ geo_pc = "aborted"
    /\ geo_run.status = "pending"
    /\ geo_job.status = "failed"

\* While the task does not raise, the statuses move as required.
C21_MonotonicUnlessRaised ==
    [][geo_error' = NoneStr =>
          /\ StatusStep(geo_job.status, geo_job'.status)
          /\ StatusStep(geo_run.status, geo_run'.status)
          /\ geo_job.status = "completed" => geo_job' = geo_job
          /\ geo_run.status = "completed" => geo_run' = geo_run]_vars

(***************************************************************************)
(* Properties of the rate limiter.                                         *)
(***************************************************************************)
\* Any two grants are at least the interval apart.
GrantsApart ==
    \A g, h \in rl_grants : g # h => Abs(g.at - h.at) >= Interval

\* C22: for any interleaving of concurrent acquire() calls for one provider
\* (coroutines, worker threads or processes, in-memory or Redis backend),
\* any two acquires that return are granted at least 60/rpm seconds apart.
C22_MinInterval == GrantsApart

\* Both callers have been granted at the same time.
C22_Witness ==
    \E g, h \in rl_grants : g.caller = 1 /\ h.caller = 2 /\ g.at = h.at

\* The coroutines of one event loop with the in-memory backend are granted
\* at least the interval apart.
C22_OneLoopApart == AtomicAcquire(rl_backend, rl_place) => GrantsApart

(***************************************************************************)
(* Properties of the external calls and of the SERP ingestion.             *)
(***************************************************************************)
IsCall(e) == e.op \in {"query", "search"}

\* Every call of the sequence has its own earlier acquire for the same
\* provider.
CallsPermitted(calls) ==
    \A i \in 1..Len(calls) :
        IsCall(calls[i]) =>
            Cardinality({j \in 1..i : calls[j] = Event("acquire", calls[i].provider)})
                >= Cardinality({j \in 1..i : IsCall(calls[j])
                                              /\ calls[j].provider = calls[i].provider})

\* C23: every external call to an LLM provider or SERP provider is preceded
\* by a rate_limiter.acquire for that provider, including the LLM
\* classification fallbacks.
C23_AcquireBeforeCall == CallsPermitted(serp_calls)

\* The LLM fallback of the content classifier has queried the LLM.
C23_Witness ==
    /\ serp_llm.site = "content"
    /\ serp_calls = <<Event("query", "openai")>>

\* The calls of _query_single and the search of _run_serp_query are
\* preceded by an acquire.
C23_TasksAcquire == serp_llm.site = "none" => CallsPermitted(serp_calls)

\* C27: a malformed or empty response from an LLM classification call, or a
\* failure of that call, is never propagated as an exception by the
\* classifier: the classification is the unknown sentinel (domain type none,
\* content type other) and the enclosing ingestion continues.
C27_ClassifierNeverRaises ==
    /\ serp_llm.site # "none" => ~serp_llm.raised
    /\ (serp_llm.site = "content"
            /\ StripLower(serp_llm.outcome) \notin
                   {"review", "ranking", "solution", "news", "forum"}) =>
          serp_llm.type = "other"
    /\ (serp_llm.site = "domain" /\ ParseLlmText(serp_llm.outcome).domain_type = "other") =>
          serp_llm.type = NoneStr
    /\ serp_llm.site = "content" => serp_pc = "items"

\* The LLM call of the content classifier failed for an item.
C27_Witness ==
    /\ serp_llm.site = "content"
    /\ serp_llm.outcome = QueryError
    /\ serp_rows # <<>>

\* In _run_serp_query a failed, malformed or empty LLM classification
\* leaves the item classified as other, and the ingestion goes on.
C27_IngestionContinues ==
    (serp_llm.site = "content"
        /\ StripLower(serp_llm.outcome) \notin
               {"review", "ranking", "solution", "news", "forum"}) =>
        /\ serp_rows[Len(serp_rows)].classification.content_type = "other"
        /\ serp_pc = "items"

(***************************************************************************)
(* Properties of dispatch_inline under SpecInline.                         *)
(***************************************************************************)
Finished(w) == inline_pc[w] \in {"idle", "done"}
AllFinished == (\A w \in Workers : Finished(w)) /\ (\E w \in Workers : inline_pc[w] = "done")

\* C28: for any number of inline tasks and any interleaving of their
\* threads, once all of them have finished app.database.async_session is
\* the original factory again, and the factory of a worker is used by that
\* worker only.
C28_FactoryIntact ==
    /\ AllFinished => async_session = MainFactory
    /\ \A u \in session_uses : u.factory \in {MainFactory, u.who}

\* Two workers overlapped: the second saved the factory of the first, and
\* both have finished.
C28_Witness ==
    /\ \A w \in Workers : inline_pc[w] = "done"
    /\ \E w \in Workers : original_session[w] \in Workers \ {w}

\* With one task dispatched, the global is the original factory again when
\* the task has finished, and the task used its own factory.
C28_OneWorkerIntact ==
    (\A w \in Workers \ {1} : inline_pc[w] = "idle") =>
        /\ inline_pc[1] = "done" => async_session = MainFactory
        /\ \A u \in session_uses : u.who = 1 => u.factory = 1

====
